---- MODULE Spec2Model ----
(***************************************************************************)
(* Model of tts1374/iidx_all_songs_master: the SQLite song master          *)
(* (src/src/db.py: deactivate_all, upsert_music, upsert_chart, apply_song) *)
(* and the cross-build chart id stability check                            *)
(* (src/src/build_validation.py: validate_chart_id_stability),             *)
(* and of the pure functions around it: normalize_text and build_music_key *)
(* (src/src/normalize.py), _parse_level_cell and parse_song_table          *)
(* (src/src/parser.py), _extract_js_object (src/src/textage_loader.py)     *)
(* and validate_db_schema_and_data (src/src/build_validation.py).          *)
(*                                                                         *)
(* Specifications:                                                         *)
(*   Spec      reconciliation runs over one SQLite connection, a baseline  *)
(*             copy of the committed file and the stability check of the   *)
(*             committed file against that baseline;                       *)
(*   SpecStab  the stability check over two arbitrary chart key maps;      *)
(*   SpecNorm  normalize_text applied to a text and to its own result;     *)
(*   SpecKey   build_music_key and upsert_music on two (title, artist)     *)
(*             pairs;                                                      *)
(*   SpecLevel _parse_level_cell on a level cell and the chart it becomes; *)
(*   SpecExt   _extract_js_object on a JavaScript source text;             *)
(*   SpecTable parse_song_table on the rows of an HTML table;              *)
(*   SpecSchema validate_db_schema_and_data on a generated file;           *)
(*   SpecSoft  the stability check over two files with soft-deleted rows.  *)
(***************************************************************************)
EXTENDS Integers, Sequences, FiniteSets, TLC

VARIABLES
    con,        \* the sqlite3 connection: [disk |-> committed file, view |-> what the connection sees]
    pc,         \* "idle" | "running": position of the reconciliation driver
    batch,      \* the records applied so far by the current run (after a commit: the run's batch)
    clock,      \* the value the next now_iso() call returns
    runs,       \* number of runs started so far
    applies,    \* number of apply_song calls made so far
    lastRun,    \* "none" | "committed" | "failed": how the last finished run ended
    last,       \* history of the last complete run: its batch, the file before it,
                \* and the batch of the complete run before it
    baseline,   \* a copy of the committed file taken as the baseline of the stability check
    checked,    \* result of the last stability check of con.disk against baseline
    old_rows,   \* SpecStab: the join rows of the baseline file
    new_rows,   \* SpecStab: the join rows of the new file
    stab,       \* SpecStab: result of validate_chart_id_stability(old, new, policy)
    nin,        \* SpecNorm: the text normalize_text is applied to
    nout,       \* SpecNorm: the results of normalize_text on nin and on its own result
    kin,        \* SpecKey: two (title, artist) pairs
    kout,       \* SpecKey: the keys build_music_key and upsert_music give the two pairs
    lin,        \* SpecLevel: the text of a level cell of the song table
    lout,       \* SpecLevel: what _parse_level_cell makes of it, and the charts it becomes
    js,         \* SpecExt: the JavaScript source text and the table looked for
    ext,        \* SpecExt: the result of _extract_js_object(js_text, varname)
    tin,        \* SpecTable: the rows (tr) of the song table given to parse_song_table
    tout,       \* SpecTable: what parse_song_table returns or raises
    vin,        \* SpecSchema: the SQLite file and the expected schema version given
                \* to validate_db_schema_and_data
    vout        \* SpecSchema: how validate_db_schema_and_data ends

reconVars == <<con, pc, batch, clock, runs, applies, lastRun, last, baseline, checked>>
stabVars == <<old_rows, new_rows, stab>>
normVars == <<nin, nout>>
keyVars == <<kin, kout>>
levelVars == <<lin, lout>>
extVars == <<js, ext>>
tableVars == <<tin, tout>>
schemaVars == <<vin, vout>>
pureVars == <<nin, nout, kin, kout, lin, lout, js, ext, tin, tout, vin, vout>>
vars == <<con, pc, batch, clock, runs, applies, lastRun, last, baseline, checked,
          old_rows, new_rows, stab, nin, nout, kin, kout, lin, lout, js, ext,
          tin, tout, vin, vout>>

(***************************************************************************)
(* Bounds of the model.                                                    *)
(***************************************************************************)
MaxRuns == 3
MaxApplies == 3
MaxOldKeys == 12
MaxNewOnly == 1
MaxStatusChanges == 2

\* SQL NULL / Python None in a column or field holding a plain value
NULL == "NULL"

\* Python None where a text (a sequence of characters) is expected
None == <<"None">>

(***************************************************************************)
(* normalize_text (src/src/normalize.py), over texts written as sequences  *)
(* of characters.  A character is a one-character string, or the name of   *)
(* its code point ("U+3000") when it is not ASCII:                         *)
(*   U+FF21 fullwidth A          U+3000 ideographic space                  *)
(*   U+030C combining caron      U+01F0 j with caron (no capital form)     *)
(*   U+201C left double quote    U+2212 minus sign                         *)
(***************************************************************************)
\* compatibility mapping of unicodedata.normalize("NFKC", s), per character
CompatChar(c) ==
    CASE c = "U+FF21" -> "A"
      [] c = "U+3000" -> " "
      [] OTHER -> c

\* canonical composition of unicodedata.normalize("NFKC", s): j + caron has
\* the composite U+01F0, J + caron has none
RECURSIVE ComposeChars(_)
ComposeChars(s) ==
    IF Len(s) < 2 THEN s
    ELSE IF s[1] = "j" /\ s[2] = "U+030C"
         THEN <<"U+01F0">> \o ComposeChars(SubSeq(s, 3, Len(s)))
         ELSE <<Head(s)>> \o ComposeChars(Tail(s))

\* str.lower() on the modelled characters
Lower(c) ==
    CASE c = "A" -> "a"
      [] c = "B" -> "b"
      [] c = "J" -> "j"
      [] OTHER -> c

\* s.replace("\n", " ").replace("\r", " ").replace("\t", " ")
NewlineTabToSpace(c) == IF c \in {"\n", "\r", "\t"} THEN " " ELSE c

\* for k, v in _QUOTE_MAP.items(): s = s.replace(k, v)
QuoteToAscii(c) == IF c = "U+201C" THEN "\"" ELSE c

\* for h in _HYPHEN_CHARS: s = s.replace(h, "-")
HyphenToAscii(c) == IF c \in {"-", "U+2212"} THEN "-" ELSE c

\* s.replace("　", " ")
FullWidthSpaceToSpace(c) == IF c = "U+3000" THEN " " ELSE c

\* the character replacements of normalize_text, in the order of the code
ReplaceChar(c) ==
    FullWidthSpaceToSpace(HyphenToAscii(QuoteToAscii(NewlineTabToSpace(c))))

IsSpace(c) == c \in {" ", "\n", "\r", "\t"}

RECURSIVE LStrip(_)
LStrip(s) == IF s # <<>> /\ IsSpace(Head(s)) THEN LStrip(Tail(s)) ELSE s

RECURSIVE RStrip(_)
RStrip(s) ==
    IF s # <<>> /\ IsSpace(s[Len(s)]) THEN RStrip(SubSeq(s, 1, Len(s) - 1)) ELSE s

\* s.strip()
Strip(s) == LStrip(RStrip(s))

\* re.sub(r"\s+", " ", s)
RECURSIVE CollapseSpaces(_)
CollapseSpaces(s) ==
    IF s = <<>> THEN <<>>
    ELSE IF IsSpace(Head(s))
         THEN <<" ">> \o CollapseSpaces(LStrip(Tail(s)))
         ELSE <<Head(s)>> \o CollapseSpaces(Tail(s))

MapChars(F(_), s) == [i \in 1..Len(s) |-> F(s[i])]

\* unicodedata.normalize("NFKC", s)
NFKC(s) == ComposeChars(MapChars(CompatChar, s))

normalize_text(s) ==
    IF s = None THEN <<>>
    ELSE MapChars(Lower, CollapseSpaces(Strip(MapChars(ReplaceChar, NFKC(s)))))

\* hashlib.sha1(...).hexdigest(): the digest stands for the hashed text
\* (collision freedom of SHA-1 is taken as given)
sha1_hex(s) == <<"sha1", s>>

\* build_music_key hashing the raw title and artist
build_music_key_raw(title, artist) ==
    sha1_hex(title \o <<"|">> \o artist)

build_music_key(title, artist) ==
    sha1_hex(normalize_text(title) \o <<"|">> \o normalize_text(artist))

(***************************************************************************)
(* The store: the music and chart tables of init_schema, with the          *)
(* AUTOINCREMENT counters SQLite keeps in sqlite_sequence.                 *)
(***************************************************************************)
EmptyStore == [music |-> {}, chart |-> {}, music_seq |-> 0, chart_seq |-> 0]

\* connect_db on a fresh file followed by init_schema (which commits)
init_schema == [disk |-> EmptyStore, view |-> EmptyStore]

\* con.commit()
Commit(c) == [disk |-> c.view, view |-> c.view]

\* the connection is dropped without commit: SQLite rolls the open transaction back
Rollback(c) == [disk |-> c.disk, view |-> c.disk]

\* deactivate_all ending with con.commit(), as init_schema does
deactivate_all_commit(c) ==
    LET d == [c EXCEPT !.view =
                 [@ EXCEPT !.music = {[r EXCEPT !.is_active = 0] : r \in @},
                           !.chart = {[r EXCEPT !.is_active = 0] : r \in @}]]
    IN  [disk |-> d.view, view |-> d.view]

\* deactivate_all clearing the chart table instead of deactivating its rows
deactivate_all_delete(c) ==
    [c EXCEPT !.view =
        [@ EXCEPT !.music = {[r EXCEPT !.is_active = 0] : r \in @},
                  !.chart = {}]]

\* deactivate_all without its second UPDATE
deactivate_all_music_only(c) ==
    [c EXCEPT !.view =
        [@ EXCEPT !.music = {[r EXCEPT !.is_active = 0] : r \in @}]]

\* UPDATE music SET is_active=0; UPDATE chart SET is_active=0 (no commit)
deactivate_all(c) ==
    [c EXCEPT !.view =
        [@ EXCEPT !.music = {[r EXCEPT !.is_active = 0] : r \in @},
                  !.chart = {[r EXCEPT !.is_active = 0] : r \in @}]]

\* SELECT music_id FROM music WHERE music_key=? ; fetchone()
SelectMusic(s, mkey) == {r \in s.music : r.music_key = mkey}

\* upsert_music written as INSERT OR REPLACE: a present row is replaced by a new one
upsert_music_replace(c, song, now) ==
    LET nt == normalize_text(song.title)
        na == normalize_text(song.artist)
        mkey == sha1_hex(nt \o <<"|">> \o na)
        id == c.view.music_seq + 1
        row == [music_id |-> id, music_key |-> mkey, title |-> song.title,
                normalized_title |-> nt, artist |-> song.artist,
                normalized_artist |-> na, genre |-> song.genre, is_active |-> 1,
                last_seen_at |-> now, created_at |-> now, updated_at |-> now]
    IN  IF song.title = None \/ song.artist = None
        THEN [ok |-> FALSE, con |-> c, music_id |-> 0]
        ELSE [ok |-> TRUE,
              con |-> [c EXCEPT !.view.music =
                                   {r \in @ : r.music_key # mkey} \cup {row},
                                !.view.music_seq = id],
              music_id |-> id]

\* upsert_music whose UPDATE also sets created_at
upsert_music_touch_created(c, song, now) ==
    LET nt == normalize_text(song.title)
        na == normalize_text(song.artist)
        mkey == sha1_hex(nt \o <<"|">> \o na)
        found == {r \in c.view.music : r.music_key = mkey}
        id == c.view.music_seq + 1
        row == [music_id |-> id, music_key |-> mkey, title |-> song.title,
                normalized_title |-> nt, artist |-> song.artist,
                normalized_artist |-> na, genre |-> song.genre, is_active |-> 1,
                last_seen_at |-> now, created_at |-> now, updated_at |-> now]
    IN  IF found = {}
        THEN IF song.title = None \/ song.artist = None
             THEN [ok |-> FALSE, con |-> c, music_id |-> 0]
             ELSE [ok |-> TRUE,
                   con |-> [c EXCEPT !.view.music = @ \cup {row},
                                     !.view.music_seq = id],
                   music_id |-> id]
        ELSE LET music_id == (CHOOSE r \in found : TRUE).music_id
             IN  [ok |-> TRUE,
                  con |-> [c EXCEPT !.view.music =
                              {IF r.music_id = music_id
                               THEN [r EXCEPT !.genre = song.genre,
                                              !.is_active = 1,
                                              !.last_seen_at = now,
                                              !.created_at = now,
                                              !.updated_at = now]
                               ELSE r : r \in @}],
                  music_id |-> music_id]

\* upsert_music whose UPDATE also sets title and artist
upsert_music_respell(c, song, now) ==
    LET nt == normalize_text(song.title)
        na == normalize_text(song.artist)
        mkey == sha1_hex(nt \o <<"|">> \o na)
        found == SelectMusic(c.view, mkey)
    IN  IF found = {}
        THEN IF song.title = None \/ song.artist = None
             THEN [ok |-> FALSE, con |-> c, music_id |-> 0]
             ELSE LET id == c.view.music_seq + 1
                      row == [music_id |-> id,
                              music_key |-> mkey,
                              title |-> song.title,
                              normalized_title |-> nt,
                              artist |-> song.artist,
                              normalized_artist |-> na,
                              genre |-> song.genre,
                              is_active |-> 1,
                              last_seen_at |-> now,
                              created_at |-> now,
                              updated_at |-> now]
                  IN  [ok |-> TRUE,
                       con |-> [c EXCEPT !.view.music = @ \cup {row},
                                         !.view.music_seq = id],
                       music_id |-> id]
        ELSE LET music_id == (CHOOSE r \in found : TRUE).music_id
             IN  [ok |-> TRUE,
                  con |-> [c EXCEPT !.view.music =
                              {IF r.music_id = music_id
                               THEN [r EXCEPT !.title = song.title,
                                              !.artist = song.artist,
                                              !.genre = song.genre,
                                              !.is_active = 1,
                                              !.last_seen_at = now,
                                              !.updated_at = now]
                               ELSE r : r \in @}],
                  music_id |-> music_id]

\* upsert_music: [ok, con, music_id]; ok = FALSE is sqlite3.IntegrityError
\* (NOT NULL constraint failed: music.title / music.artist) raised by the INSERT
upsert_music(c, song, now) ==
    LET nt == normalize_text(song.title)
        na == normalize_text(song.artist)
        mkey == sha1_hex(nt \o <<"|">> \o na)
        found == SelectMusic(c.view, mkey)
    IN  IF found = {}
        THEN IF song.title = None \/ song.artist = None
             THEN [ok |-> FALSE, con |-> c, music_id |-> 0]
             ELSE LET id == c.view.music_seq + 1
                      row == [music_id |-> id,
                              music_key |-> mkey,
                              title |-> song.title,
                              normalized_title |-> nt,
                              artist |-> song.artist,
                              normalized_artist |-> na,
                              genre |-> song.genre,
                              is_active |-> 1,
                              last_seen_at |-> now,
                              created_at |-> now,
                              updated_at |-> now]
                  IN  [ok |-> TRUE,
                       con |-> [c EXCEPT !.view.music = @ \cup {row},
                                         !.view.music_seq = id],
                       music_id |-> id]
        ELSE LET music_id == (CHOOSE r \in found : TRUE).music_id
             IN  [ok |-> TRUE,
                  con |-> [c EXCEPT !.view.music =
                              {IF r.music_id = music_id
                               THEN [r EXCEPT !.genre = song.genre,
                                              !.is_active = 1,
                                              !.last_seen_at = now,
                                              !.updated_at = now]
                               ELSE r : r \in @}],
                  music_id |-> music_id]

\* SELECT chart_id FROM chart WHERE music_id=? AND play_style=? AND difficulty=?
SelectChart(s, music_id, play_style, difficulty) ==
    {r \in s.chart : /\ r.music_id = music_id
                     /\ r.play_style = play_style
                     /\ r.difficulty = difficulty}

\* upsert_chart written as INSERT OR REPLACE: a present row is replaced by a new one
upsert_chart_replace(c, music_id, play_style, difficulty, level, now) ==
    LET id == c.view.chart_seq + 1
        row == [chart_id |-> id, music_id |-> music_id, play_style |-> play_style,
                difficulty |-> difficulty, level |-> level, is_active |-> 1,
                last_seen_at |-> now, created_at |-> now, updated_at |-> now]
    IN  [c EXCEPT !.view.chart =
                     {r \in @ : ~(/\ r.music_id = music_id
                                  /\ r.play_style = play_style
                                  /\ r.difficulty = difficulty)} \cup {row},
                  !.view.chart_seq = id]

\* upsert_chart: the connection after the INSERT or the UPDATE
upsert_chart(c, music_id, play_style, difficulty, level, now) ==
    LET found == SelectChart(c.view, music_id, play_style, difficulty)
    IN  IF found = {}
        THEN LET id == c.view.chart_seq + 1
                 row == [chart_id |-> id,
                         music_id |-> music_id,
                         play_style |-> play_style,
                         difficulty |-> difficulty,
                         level |-> level,
                         is_active |-> 1,
                         last_seen_at |-> now,
                         created_at |-> now,
                         updated_at |-> now]
             IN  [c EXCEPT !.view.chart = @ \cup {row}, !.view.chart_seq = id]
        ELSE LET chart_id == (CHOOSE r \in found : TRUE).chart_id
             IN  [c EXCEPT !.view.chart =
                     {IF r.chart_id = chart_id
                      THEN [r EXCEPT !.level = level,
                                     !.is_active = 1,
                                     !.last_seen_at = now,
                                     !.updated_at = now]
                      ELSE r : r \in @}]

\* the (play_style, difficulty, SongRow field) list of apply_song
mapping ==
    << <<"SP", "BEGINNER", "sp_beginner">>,
       <<"SP", "NORMAL", "sp_normal">>,
       <<"SP", "HYPER", "sp_hyper">>,
       <<"SP", "ANOTHER", "sp_another">>,
       <<"SP", "LEGGENDARIA", "sp_leggendaria">>,
       <<"DP", "NORMAL", "dp_normal">>,
       <<"DP", "HYPER", "dp_hyper">>,
       <<"DP", "ANOTHER", "dp_another">>,
       <<"DP", "LEGGENDARIA", "dp_leggendaria">> >>

\* a SongRow level field: song.levels holds the fields that are not None
IsNone(song, field) == field \notin DOMAIN song.levels

\* the for loop of apply_song from entry i on; st = [con, now]
RECURSIVE ApplyCharts(_, _, _, _)
ApplyCharts(st, music_id, song, i) ==
    IF i > Len(mapping) THEN st
    ELSE IF IsNone(song, mapping[i][3])
         THEN ApplyCharts(st, music_id, song, i + 1)
         ELSE ApplyCharts(
                 [con |-> upsert_chart(st.con, music_id, mapping[i][1], mapping[i][2],
                                       song.levels[mapping[i][3]], st.now),
                  now |-> st.now + 1],
                 music_id, song, i + 1)

\* apply_song reactivating every chart row of the song, levelled or not
apply_song_reactivate_all(c, song, now) ==
    LET m == upsert_music(c, song, now)
    IN  IF ~m.ok THEN [ok |-> FALSE, con |-> c, now |-> now + 1]
        ELSE LET st == ApplyCharts([con |-> m.con, now |-> now + 1], m.music_id, song, 1)
             IN  [ok |-> TRUE,
                  con |-> [st.con EXCEPT !.view.chart =
                              {IF r.music_id = m.music_id
                               THEN [r EXCEPT !.is_active = 1] ELSE r : r \in @}],
                  now |-> st.now]

\* apply_song: [ok, con, now]; every now_iso() call returns a later time
apply_song(c, song, now) ==
    LET m == upsert_music(c, song, now)
    IN  IF ~m.ok THEN [ok |-> FALSE, con |-> c, now |-> now + 1]
        ELSE LET st == ApplyCharts([con |-> m.con, now |-> now + 1], m.music_id, song, 1)
             IN  [ok |-> TRUE, con |-> st.con, now |-> st.now]

(***************************************************************************)
(* The chart id stability check (src/src/build_validation.py).             *)
(* A SQLite file is seen through the rows of the join of                   *)
(* _load_chart_key_map: <<textage_id, play_style, difficulty, chart_id>>.  *)
(***************************************************************************)
\* mismatches[:10], missing_in_new[:10]
SampleLimit == 10

\* the rows of a set in chart_id order (the scan order of the chart table)
RECURSIVE RowsInScanOrder(_)
RowsInScanOrder(rows) ==
    IF rows = {} THEN <<>>
    ELSE LET first == CHOOSE r \in rows : \A q \in rows : r[4] <= q[4]
         IN  <<first>> \o RowsInScanOrder(rows \ {first})

\* a Python dict as the sequence of its <<key, value>> items in insertion order
DictHas(d, k) == \E i \in 1..Len(d) : d[i][1] = k

DictGet(d, k) == d[CHOOSE i \in 1..Len(d) : d[i][1] = k][2]

\* d[k] = v
DictPut(d, k, v) ==
    IF DictHas(d, k)
    THEN [i \in 1..Len(d) |-> IF d[i][1] = k THEN <<k, v>> ELSE d[i]]
    ELSE Append(d, <<k, v>>)

\* {(row[0], row[1], row[2]): int(row[3]) for row in rows}
RECURSIVE DictFromRows(_, _)
DictFromRows(d, rows) ==
    IF rows = <<>> THEN d
    ELSE DictFromRows(DictPut(d, <<Head(rows)[1], Head(rows)[2], Head(rows)[3]>>,
                              Head(rows)[4]),
                      Tail(rows))

\* _load_chart_key_map on a file whose join holds `rows`
load_chart_key_map(rows) == DictFromRows(<<>>, RowsInScanOrder(rows))

\* the loop over old_map.items() from item i on; acc = [mismatches, missing_in_new]
RECURSIVE CompareMaps(_, _, _, _)
CompareMaps(old_map, new_map, i, acc) ==
    IF i > Len(old_map) THEN acc
    ELSE LET key == old_map[i][1]
             old_chart_id == old_map[i][2]
         IN  IF ~DictHas(new_map, key)
             THEN CompareMaps(old_map, new_map, i + 1,
                              [acc EXCEPT !.missing_in_new = Append(@, key)])
             ELSE IF DictGet(new_map, key) # old_chart_id
                  THEN CompareMaps(old_map, new_map, i + 1,
                                   [acc EXCEPT !.mismatches =
                                       Append(@, <<key, old_chart_id,
                                                   DictGet(new_map, key)>>)])
                  ELSE CompareMaps(old_map, new_map, i + 1, acc)

\* seq[:n]
Take(seq, n) == SubSeq(seq, 1, IF Len(seq) < n THEN Len(seq) ELSE n)

\* what a call that raises hands to its caller in place of the summary
NoSummary == [raised |-> TRUE]

\* no stability check made yet
NoResult == [outcome |-> "none"]

\* the returned summary with new_only_total taken as len(new_map) - len(old_map)
stability_summary_new_only_wrong(old_map, new_map, missing_in_new, missing_policy) ==
    [old_total |-> Len(old_map),
     new_total |-> Len(new_map),
     shared_total |-> Len(old_map) - Len(missing_in_new),
     new_only_total |-> Len(new_map) - Len(old_map),
     missing_in_new_total |-> Len(missing_in_new),
     missing_policy |-> missing_policy]

\* the dict validate_chart_id_stability returns
stability_summary(old_map, new_map, missing_in_new, missing_policy) ==
    [old_total |-> Len(old_map),
     new_total |-> Len(new_map),
     shared_total |-> Len(old_map) - Len(missing_in_new),
     new_only_total |-> Len(new_map) - (Len(old_map) - Len(missing_in_new)),
     missing_in_new_total |-> Len(missing_in_new),
     missing_policy |-> missing_policy]

\* the two failure checks in the other order: missing keys first
stability_outcome_missing_first(old_map, new_map, mismatches, missing_in_new, missing_policy) ==
    IF missing_in_new # <<>> /\ missing_policy = "error"
    THEN [outcome |-> "RuntimeError", kind |-> "missing",
          count |-> Len(missing_in_new), sample |-> Take(missing_in_new, SampleLimit),
          summary |-> NoSummary, loads |-> 2, policy |-> missing_policy]
    ELSE IF mismatches # <<>>
    THEN [outcome |-> "RuntimeError", kind |-> "mismatch",
          count |-> Len(mismatches), sample |-> Take(mismatches, SampleLimit),
          summary |-> NoSummary, loads |-> 2, policy |-> missing_policy]
    ELSE [outcome |-> "return", kind |-> "summary", count |-> 0, sample |-> <<>>,
          summary |-> stability_summary(old_map, new_map, missing_in_new,
                                        missing_policy),
          loads |-> 2, policy |-> missing_policy]

\* the missing-key check left out: missing keys are only counted
stability_outcome_missing_tolerated(old_map, new_map, mismatches, missing_in_new, missing_policy) ==
    IF mismatches # <<>>
    THEN [outcome |-> "RuntimeError", kind |-> "mismatch",
          count |-> Len(mismatches), sample |-> Take(mismatches, SampleLimit),
          summary |-> NoSummary, loads |-> 2, policy |-> missing_policy]
    ELSE [outcome |-> "return", kind |-> "summary", count |-> 0, sample |-> <<>>,
          summary |-> stability_summary(old_map, new_map, missing_in_new,
                                        missing_policy),
          loads |-> 2, policy |-> missing_policy]

\* the end of validate_chart_id_stability, after the loop: raise or return
stability_outcome(old_map, new_map, mismatches, missing_in_new, missing_policy) ==
    IF mismatches # <<>>
    THEN [outcome |-> "RuntimeError", kind |-> "mismatch",
          count |-> Len(mismatches), sample |-> Take(mismatches, SampleLimit),
          summary |-> NoSummary, loads |-> 2, policy |-> missing_policy]
    ELSE IF missing_in_new # <<>> /\ missing_policy = "error"
    THEN [outcome |-> "RuntimeError", kind |-> "missing",
          count |-> Len(missing_in_new), sample |-> Take(missing_in_new, SampleLimit),
          summary |-> NoSummary, loads |-> 2, policy |-> missing_policy]
    ELSE [outcome |-> "return", kind |-> "summary", count |-> 0, sample |-> <<>>,
          summary |-> stability_summary(old_map, new_map, missing_in_new,
                                        missing_policy),
          loads |-> 2, policy |-> missing_policy]

\* validate_chart_id_stability: the outcome the caller gets.
\*   outcome "ValueError"   the policy is rejected
\*           "RuntimeError" a hard failure; kind, count and sample are its message
\*           "return"       summary is the returned dict
\*   loads: how many files _load_chart_key_map has read
validate_chart_id_stability(old_file, new_file, missing_policy) ==
    IF missing_policy \notin {"error", "warn"}
    THEN [outcome |-> "ValueError", kind |-> "policy", count |-> 0, sample |-> <<>>,
          summary |-> NoSummary, loads |-> 0, policy |-> missing_policy]
    ELSE
    LET old_map == load_chart_key_map(old_file)
        new_map == load_chart_key_map(new_file)
        acc == CompareMaps(old_map, new_map, 1,
                           [mismatches |-> <<>>, missing_in_new |-> <<>>])
    IN  stability_outcome(old_map, new_map, acc.mismatches, acc.missing_in_new,
                          missing_policy)

\* the join restricted to the active charts
JoinedRowsActive(s) ==
    {<<m.music_key, c.play_style, c.difficulty, c.chart_id>> :
        <<m, c>> \in {mc \in s.music \X s.chart :
                         mc[1].music_id = mc[2].music_id /\ mc[2].is_active = 1}}

\* the join of _load_chart_key_map over a store of db.py, the song's natural key
\* (music_key) standing for its external source identifier (textage_id)
JoinedRows(s) ==
    {<<m.music_key, c.play_style, c.difficulty, c.chart_id>> :
        <<m, c>> \in {mc \in s.music \X s.chart : mc[1].music_id = mc[2].music_id}}

(***************************************************************************)
(* Specification Spec: reconciliation runs.                                *)
(***************************************************************************)
Titles == {<<"A">>, <<"a", " ">>, <<"b">>}
Artist == <<"x">>

\* the (genre, levels) a record carries: one chart, or two charts at other levels
Variants ==
    {[genre |-> NULL, levels |-> ("sp_beginner" :> 1)],
     [genre |-> "g", levels |-> ("sp_beginner" :> 2 @@ "dp_leggendaria" :> 12)]}

\* the SongRow values a batch is made of; the last one has no title
SongRows ==
    {[title |-> t, artist |-> Artist, genre |-> v.genre, levels |-> v.levels] :
        t \in Titles, v \in Variants}
    \cup {[title |-> None, artist |-> Artist, genre |-> NULL,
           levels |-> ("sp_beginner" :> 1)]}

NoLast == [some |-> FALSE, batch |-> <<>>, before |-> EmptyStore,
           prevSome |-> FALSE, prevBatch |-> <<>>]

NoBaseline == [taken |-> FALSE, store |-> EmptyStore]

InitRecon ==
    /\ con = init_schema
    /\ pc = "idle"
    /\ batch = <<>>
    /\ clock = 1
    /\ runs = 0
    /\ applies = 0
    /\ lastRun = "none"
    /\ last = NoLast
    /\ baseline = NoBaseline
    /\ checked = NoResult

InitStab ==
    /\ old_rows = {}
    /\ new_rows = {}
    /\ stab = NoResult

\* no normalize_text call made yet
NoNorm == [calls |-> 0, first |-> <<>>, value |-> <<>>]

\* no key derived yet
NoKeys == [op |-> "none"]

\* no level cell parsed yet
NoLevel == [step |-> "none"]

\* no extraction made yet
NoExtract == [outcome |-> "none"]

\* no song table parsed yet
NoRows == [outcome |-> "none"]

\* no structural check made yet
NoVerdict == [outcome |-> "none"]

\* normalize_text is not under study
IdleNorm ==
    /\ nin = <<>>
    /\ nout = NoNorm

\* build_music_key is not under study
IdleKey ==
    /\ kin = [title |-> <<>>, artist |-> <<>>, title2 |-> <<>>, artist2 |-> <<>>]
    /\ kout = NoKeys

\* _parse_level_cell is not under study
IdleLevel ==
    /\ lin = <<>>
    /\ lout = NoLevel

\* _extract_js_object is not under study
IdleExt ==
    /\ js = [text |-> <<>>, varname |-> <<>>]
    /\ ext = NoExtract

\* parse_song_table is not under study
IdleTable ==
    /\ tin = [tbody |-> FALSE, trs |-> <<>>]
    /\ tout = NoRows

\* validate_db_schema_and_data is not under study
IdleSchema ==
    /\ vin = [db |-> <<>>, expected_schema_version |-> <<>>]
    /\ vout = NoVerdict

\* the pure functions' inputs and results while Spec and SpecStab run
InitPure == IdleNorm /\ IdleKey /\ IdleLevel /\ IdleExt /\ IdleTable /\ IdleSchema

Init == InitRecon /\ InitStab /\ InitPure

\* a run starts: step 1 of the reconciler
BeginRun ==
    /\ pc = "idle"
    /\ runs < MaxRuns
    /\ con' = deactivate_all(con)
    /\ pc' = "running"
    /\ batch' = <<>>
    /\ runs' = runs + 1
    /\ checked' = NoResult
    /\ UNCHANGED <<clock, applies, lastRun, last, baseline>>
    /\ UNCHANGED stabVars
    /\ UNCHANGED pureVars

\* the run applies the next record of its batch
ApplySong(song) ==
    /\ pc = "running"
    /\ applies < MaxApplies
    /\ LET r == apply_song(con, song, clock)
       IN  /\ r.ok
           /\ con' = r.con
           /\ clock' = r.now
    /\ batch' = Append(batch, song)
    /\ applies' = applies + 1
    /\ UNCHANGED <<pc, runs, lastRun, last, baseline, checked>>
    /\ UNCHANGED stabVars
    /\ UNCHANGED pureVars

\* apply_song raises: the run ends without commit
ApplySongFails(song) ==
    /\ pc = "running"
    /\ applies < MaxApplies
    /\ LET r == apply_song(con, song, clock)
       IN  /\ ~r.ok
           /\ con' = Rollback(r.con)
           /\ clock' = r.now
    /\ batch' = Append(batch, song)
    /\ applies' = applies + 1
    /\ pc' = "idle"
    /\ lastRun' = "failed"
    /\ UNCHANGED <<runs, last, baseline, checked>>
    /\ UNCHANGED stabVars
    /\ UNCHANGED pureVars

\* every record of the batch is applied: the run commits
CommitRun ==
    /\ pc = "running"
    /\ con' = Commit(con)
    /\ pc' = "idle"
    /\ lastRun' = "committed"
    /\ last' = [some |-> TRUE, batch |-> batch, before |-> con.disk,
                prevSome |-> last.some, prevBatch |-> last.batch]
    /\ UNCHANGED <<batch, clock, runs, applies, baseline, checked>>
    /\ UNCHANGED stabVars
    /\ UNCHANGED pureVars

\* the committed file is published and later serves as the baseline
TakeBaseline ==
    /\ pc = "idle"
    /\ lastRun = "committed"
    /\ ~baseline.taken
    /\ baseline' = [taken |-> TRUE, store |-> con.disk]
    /\ UNCHANGED <<con, pc, batch, clock, runs, applies, lastRun, last, checked>>
    /\ UNCHANGED stabVars
    /\ UNCHANGED pureVars

Policies == {"error", "warn", "ignore"}

\* validate_chart_id_stability(baseline, committed file, missing_policy="error"),
\* the call of test_chart_id_stability_against_baseline
CheckStability ==
    /\ pc = "idle"
    /\ baseline.taken
    /\ checked = NoResult
    /\ checked' = validate_chart_id_stability(JoinedRows(baseline.store),
                                              JoinedRows(con.disk), "error")
    /\ UNCHANGED <<con, pc, batch, clock, runs, applies, lastRun, last, baseline>>
    /\ UNCHANGED stabVars
    /\ UNCHANGED pureVars

Next ==
    \/ BeginRun
    \/ \E song \in SongRows : ApplySong(song)
    \/ \E song \in SongRows : ApplySongFails(song)
    \/ CommitRun
    \/ TakeBaseline
    \/ CheckStability

Spec == Init /\ [][Next]_vars

(***************************************************************************)
(* Specification SpecStab: the stability check over arbitrary files.       *)
(* Key k of the baseline has chart id k; two keys share each textage_id.   *)
(***************************************************************************)
StabKey(k) == <<(k + 1) \div 2, IF k % 2 = 1 THEN "SP" ELSE "DP", "NORMAL">>

StabRow(k, chart_id) == <<StabKey(k)[1], StabKey(k)[2], StabKey(k)[3], chart_id>>

\* how the new file holds key k of the baseline
StatusOf(k) ==
    IF StabRow(k, k) \in new_rows THEN "same"
    ELSE IF StabRow(k, MaxOldKeys + k) \in new_rows THEN "remapped"
    ELSE "missing"

\* number of places where two consecutive baseline keys differ in status
StatusChanges(n) == Cardinality({k \in 1..(n - 1) : StatusOf(k) # StatusOf(k + 1)})

\* the baseline gets its next chart; the new file holds it with the same id,
\* with another id, or not at all
AddKey(status) ==
    /\ stab = NoResult
    /\ Cardinality(old_rows) < MaxOldKeys
    /\ LET n == Cardinality(old_rows)
           k == n + 1
       IN  /\ StatusChanges(n) + (IF n > 0 /\ StatusOf(n) # status THEN 1 ELSE 0)
                <= MaxStatusChanges
           /\ old_rows' = old_rows \cup {StabRow(k, k)}
           /\ new_rows' =
                CASE status = "same" -> new_rows \cup {StabRow(k, k)}
                  [] status = "remapped" -> new_rows \cup {StabRow(k, MaxOldKeys + k)}
                  [] OTHER -> new_rows
    /\ UNCHANGED stab
    /\ UNCHANGED reconVars
    /\ UNCHANGED pureVars

\* the new file gets a chart the baseline does not have
AddNewOnly ==
    /\ stab = NoResult
    /\ old_rows = {}
    /\ Cardinality(new_rows) < MaxNewOnly
    /\ LET j == Cardinality(new_rows) + 1
       IN  new_rows' = new_rows \cup {<<0 - j, "SP", "NORMAL", 2 * MaxOldKeys + j>>}
    /\ UNCHANGED <<old_rows, stab>>
    /\ UNCHANGED reconVars
    /\ UNCHANGED pureVars

Validate(policy) ==
    /\ stab = NoResult
    /\ stab' = validate_chart_id_stability(old_rows, new_rows, policy)
    /\ UNCHANGED <<old_rows, new_rows>>
    /\ UNCHANGED reconVars
    /\ UNCHANGED pureVars

NextStab ==
    \/ \E status \in {"same", "remapped", "missing"} : AddKey(status)
    \/ AddNewOnly
    \/ \E policy \in Policies : Validate(policy)

SpecStab == Init /\ [][NextStab]_vars

(***************************************************************************)
(* Properties of reconciliation (specification Spec).                      *)
(***************************************************************************)
\* the natural key of a chart row
ChartKey(r) == <<r.music_id, r.play_style, r.difficulty>>

\* every key of s keeps its surrogate id in t
IdsKept(s, t) ==
    /\ \A r \in s.music :
          /\ \E q \in t.music : q.music_key = r.music_key
          /\ \A q \in t.music : q.music_key = r.music_key => q.music_id = r.music_id
    /\ \A r \in s.chart :
          /\ \E q \in t.chart : ChartKey(q) = ChartKey(r)
          /\ \A q \in t.chart : ChartKey(q) = ChartKey(r) => q.chart_id = r.chart_id

\* every entity of t that s does not have has an id no row of s has, and no two
\* rows of t share an id
IdsFresh(s, t) ==
    /\ \A q \in t.music :
          (\A r \in s.music : r.music_key # q.music_key)
              => (\A r \in s.music : r.music_id # q.music_id)
    /\ \A q \in t.chart :
          (\A r \in s.chart : ChartKey(r) # ChartKey(q))
              => (\A r \in s.chart : r.chart_id # q.chart_id)
    /\ \A q1, q2 \in t.music : q1.music_id = q2.music_id => q1 = q2
    /\ \A q1, q2 \in t.chart : q1.chart_id = q2.chart_id => q1 = q2

\* the step ends a run whose apply_song raised
FailingStep == pc = "running" /\ pc' = "idle" /\ lastRun' = "failed"

\* C1: across reconciliation runs a surrogate id never changes once assigned: from
\* each state to the next, every music_key keeps its music_id and every
\* (music_id, play_style, difficulty) keeps its chart_id, in the committed file and,
\* while a run goes on, in the connection's view; and a newly inserted entity gets an
\* id that no row had before.
C1_IdsImmutable ==
    [][/\ IdsKept(con.disk, con'.disk)
       /\ IdsFresh(con.disk, con'.disk)
       /\ ~FailingStep => /\ IdsKept(con.view, con'.view)
                          /\ IdsFresh(con.view, con'.view)]_vars

\* C1 witness: a committed file in which a song and one of its charts were updated by
\* a run after the one that created them, and a second song was inserted later
\* under another id.
C1_Witness ==
    /\ pc = "idle"
    /\ \E r, q \in con.disk.music :
          /\ r.updated_at > r.created_at
          /\ q.created_at > r.created_at
          /\ q.music_id # r.music_id
          /\ \E c \in con.disk.chart :
                c.music_id = r.music_id /\ c.updated_at > c.created_at

\* the rows of s, named by their surrogate ids, are all still rows of t
RowsKept(s, t) ==
    /\ {r.music_id : r \in s.music} \subseteq {r.music_id : r \in t.music}
    /\ {r.chart_id : r \in s.chart} \subseteq {r.chart_id : r \in t.chart}
    /\ Cardinality(s.music) <= Cardinality(t.music)
    /\ Cardinality(s.chart) <= Cardinality(t.chart)

\* C2: no reconciliation operation removes a row: from each state to the next the
\* committed file keeps every Music and Chart row it had, and so does the
\* connection's view in every step of a run that does not fail.
C2_NoRowRemoved ==
    [][/\ RowsKept(con.disk, con'.disk)
       /\ ~FailingStep => RowsKept(con.view, con'.view)]_vars

\* C2 witness: after a complete run, the file holds an inactive song and an inactive
\* chart that the run's batch did not contain.
C2_Witness ==
    /\ pc = "idle"
    /\ lastRun = "committed"
    /\ \E r \in con.disk.music : r.is_active = 0
    /\ \E c \in con.disk.chart : c.is_active = 0

\* the music_key build_music_key gives a record
KeyOf(song) == build_music_key(song.title, song.artist)

\* the music_keys of the records of batch b
BatchKeys(b) == {KeyOf(b[n]) : n \in 1..Len(b)}

\* the <<music_key, play_style, difficulty>> for which some record of b has a level
BatchSlots(b) ==
    {<<KeyOf(b[p[1]]), mapping[p[2]][1], mapping[p[2]][2]>> :
        p \in {q \in (1..Len(b)) \X (1..Len(mapping)) :
                 mapping[q[2]][3] \in DOMAIN b[q[1]].levels}}

\* the active set of store s is the one batch b defines
ActiveSetIs(s, b) ==
    LET keys == BatchKeys(b)
        slots == BatchSlots(b)
    IN  /\ \A r \in s.music :
              r.is_active = (IF r.music_key \in keys THEN 1 ELSE 0)
        /\ \A c \in s.chart :
              \E m \in s.music :
                 /\ m.music_id = c.music_id
                 /\ c.is_active =
                       (IF <<m.music_key, c.play_style, c.difficulty>> \in slots
                        THEN 1 ELSE 0)
        /\ \A k \in keys : \E m \in s.music : m.music_key = k
        /\ \A slot \in slots :
              \E m \in s.music, c \in s.chart :
                 /\ m.music_key = slot[1]
                 /\ c.music_id = m.music_id
                 /\ <<c.play_style, c.difficulty>> = <<slot[2], slot[3]>>

\* C3: after a complete run over batch B, whatever the file held before, a Music
\* entity is active iff its music_key is the key of some record of B, and a Chart
\* entity is active iff some record of B with the owning song's key has a level in
\* its slot; every other entity is inactive.
C3_ActiveSetIsBatch ==
    (pc = "idle" /\ lastRun = "committed") => ActiveSetIs(con.disk, last.batch)

\* C3 witness: a complete run over a non-empty batch on a file that held another
\* active song and, for a song of the batch, an active chart the batch has no level
\* for: both end the run inactive.
C3_Witness ==
    /\ pc = "idle"
    /\ lastRun = "committed"
    /\ last.batch # <<>>
    /\ \E r \in last.before.music :
          /\ r.is_active = 1
          /\ r.music_key \notin BatchKeys(last.batch)
    /\ \E c \in last.before.chart, m \in last.before.music :
          /\ c.is_active = 1
          /\ m.music_id = c.music_id
          /\ m.music_key \in BatchKeys(last.batch)
          /\ <<m.music_key, c.play_style, c.difficulty>> \notin BatchSlots(last.batch)

\* store s without the columns last_seen_at and updated_at
WithoutSeenUpdated(s) ==
    [music |-> {[r EXCEPT !.last_seen_at = 0, !.updated_at = 0] : r \in s.music},
     chart |-> {[r EXCEPT !.last_seen_at = 0, !.updated_at = 0] : r \in s.chart},
     music_seq |-> s.music_seq,
     chart_seq |-> s.chart_seq]

\* every song and every chart that batch b names is stored in s and active
BatchActive(s, b) ==
    \A n \in 1..Len(b) :
       \E m \in s.music :
          /\ m.music_key = KeyOf(b[n])
          /\ m.is_active = 1
          /\ \A i \in 1..Len(mapping) :
                mapping[i][3] \in DOMAIN b[n].levels =>
                   \E c \in s.chart : /\ ChartKey(c) = <<m.music_id, mapping[i][1], mapping[i][2]>>
                                      /\ c.is_active = 1

\* C4: reconciliation is idempotent: when the last two complete runs had the same
\* batch, the file after the second holds the same rows with the same surrogate ids,
\* is_active flags and column values as after the first, last_seen_at and updated_at
\* excepted, and every entity of the batch is active.
C4_Idempotent ==
    (/\ pc = "idle"
     /\ lastRun = "committed"
     /\ last.prevSome
     /\ last.batch = last.prevBatch) =>
        /\ WithoutSeenUpdated(con.disk) = WithoutSeenUpdated(last.before)
        /\ BatchActive(con.disk, last.batch)

\* C4 witness: the second of two complete runs over the same non-empty batch has
\* committed, and it refreshed the timestamps of a song that has a chart.
C4_Witness ==
    /\ pc = "idle"
    /\ lastRun = "committed"
    /\ last.prevSome
    /\ last.batch = last.prevBatch
    /\ last.batch # <<>>
    /\ \E r \in con.disk.music, q \in last.before.music, c \in con.disk.chart :
          /\ r.music_id = q.music_id
          /\ r.updated_at > q.updated_at
          /\ c.music_id = r.music_id

\* no two rows of s share a natural key
KeysUnique(s) ==
    /\ \A r, q \in s.music : r.music_key = q.music_key => r = q
    /\ \A r, q \in s.chart : ChartKey(r) = ChartKey(q) => r = q

\* C5: a song or chart that is stored inactive (present in an earlier batch, absent
\* from the batches since) and is present in the batch of a complete run is active
\* after that run in the same row, with the same surrogate id, and at no time do two
\* rows exist for one music_key or for one (music_id, play_style, difficulty).
C5_ReactivationReusesRow ==
    /\ KeysUnique(con.disk)
    /\ KeysUnique(con.view)
    /\ (pc = "idle" /\ lastRun = "committed") =>
         LET keys == BatchKeys(last.batch)
             slots == BatchSlots(last.batch)
         IN  /\ \A r \in last.before.music :
                   (r.is_active = 0 /\ r.music_key \in keys)
                   => \E q \in con.disk.music :
                         /\ q.music_id = r.music_id
                         /\ q.music_key = r.music_key
                         /\ q.created_at = r.created_at
                         /\ q.is_active = 1
             /\ \A c \in last.before.chart :
                   (c.is_active = 0 /\ \E m \in last.before.music :
                                          /\ m.music_id = c.music_id
                                          /\ <<m.music_key, c.play_style, c.difficulty>>
                                                \in slots)
                   => \E q \in con.disk.chart :
                         /\ q.chart_id = c.chart_id
                         /\ ChartKey(q) = ChartKey(c)
                         /\ q.created_at = c.created_at
                         /\ q.is_active = 1

\* C5 witness: a complete run has brought back a song and a chart that the file
\* held inactive before it.
C5_Witness ==
    /\ pc = "idle"
    /\ lastRun = "committed"
    /\ \E r \in last.before.music, c \in last.before.chart :
          /\ r.is_active = 0
          /\ c.is_active = 0
          /\ c.music_id = r.music_id
          /\ \E q \in con.disk.music : q.music_id = r.music_id /\ q.is_active = 1
          /\ \E q \in con.disk.chart : q.chart_id = c.chart_id /\ q.is_active = 1

\* C6: a run is all-or-nothing: while a run is in progress the committed file does
\* not change, and when apply_song fails on a record the run ends with the committed
\* file, and what the connection sees, exactly as the file was before the run; the
\* file changes only in the step that commits a whole batch.
C6_AllOrNothing ==
    [][/\ pc' = "running" => con'.disk = con.disk
       /\ FailingStep => (con'.disk = con.disk /\ con'.view = con.disk)
       /\ con'.disk # con.disk =>
             (pc = "running" /\ lastRun' = "committed" /\ con'.disk = con.view)]_vars

\* C6 witness: a run over a file with active entities has failed on its second
\* record, after the deactivation and one successful apply_song.
C6_Witness ==
    /\ pc = "idle"
    /\ lastRun = "failed"
    /\ Len(batch) >= 2
    /\ \E r \in con.disk.music : r.is_active = 1
    /\ \E c \in con.disk.chart : c.is_active = 1

RowKey(r) == <<r[1], r[2], r[3]>>

KeysOf(rows) == {RowKey(r) : r \in rows}

IdOf(rows, k) == (CHOOSE r \in rows : RowKey(r) = k)[4]

SharedKeys == KeysOf(old_rows) \cap KeysOf(new_rows)

MismatchedKeys == {k \in SharedKeys : IdOf(old_rows, k) # IdOf(new_rows, k)}

MissingKeys == KeysOf(old_rows) \ KeysOf(new_rows)

NewOnlyKeys == KeysOf(new_rows) \ KeysOf(old_rows)

AtMostLimit(n) == IF n < SampleLimit THEN n ELSE SampleLimit

\* C8: under policy error and warn alike, whenever some key is in both files with
\* different chart ids the check fails, whether or not baseline keys are missing;
\* the failure reports the number of mismatched keys and min(10, that number)
\* distinct examples, each a mismatched key with its old and its new chart id.
C8_MismatchAlwaysFails ==
    (stab # NoResult /\ stab.policy \in {"error", "warn"} /\ MismatchedKeys # {}) =>
        /\ stab.outcome = "RuntimeError"
        /\ stab.kind = "mismatch"
        /\ stab.count = Cardinality(MismatchedKeys)
        /\ Len(stab.sample) = AtMostLimit(Cardinality(MismatchedKeys))
        /\ \A i \in 1..Len(stab.sample) :
              /\ stab.sample[i][1] \in MismatchedKeys
              /\ stab.sample[i][2] = IdOf(old_rows, stab.sample[i][1])
              /\ stab.sample[i][3] = IdOf(new_rows, stab.sample[i][1])
        /\ \A i, j \in 1..Len(stab.sample) :
              stab.sample[i] = stab.sample[j] => i = j

\* C8 witness: under policy warn the check has failed on more than 10 mismatched
\* keys while another baseline key is missing in the new file.
C8_Witness ==
    /\ stab # NoResult
    /\ stab.policy = "warn"
    /\ stab.outcome = "RuntimeError"
    /\ Cardinality(MismatchedKeys) > SampleLimit
    /\ MissingKeys # {}

\* C9: when no shared key has differing chart ids: under error the check fails iff a
\* baseline key is absent from the new file, reporting their number and min(10,
\* that number) of them, and otherwise returns; under warn it returns a summary
\* whose totals count the baseline-only, shared and new-only keys; any other policy
\* is rejected with no file read.
C9_PolicyDecidesMissing ==
    stab # NoResult =>
        /\ (stab.policy = "error" /\ MismatchedKeys = {} /\ MissingKeys # {}) =>
              /\ stab.outcome = "RuntimeError"
              /\ stab.kind = "missing"
              /\ stab.count = Cardinality(MissingKeys)
              /\ Len(stab.sample) = AtMostLimit(Cardinality(MissingKeys))
              /\ \A i \in 1..Len(stab.sample) : stab.sample[i] \in MissingKeys
              /\ \A i, j \in 1..Len(stab.sample) :
                    stab.sample[i] = stab.sample[j] => i = j
        /\ (/\ stab.policy \in {"error", "warn"}
            /\ MismatchedKeys = {}
            /\ (stab.policy = "warn" \/ MissingKeys = {})) =>
              /\ stab.outcome = "return"
              /\ stab.summary.missing_policy = stab.policy
              /\ stab.summary.missing_in_new_total = Cardinality(MissingKeys)
              /\ stab.summary.shared_total = Cardinality(SharedKeys)
              /\ stab.summary.new_only_total = Cardinality(NewOnlyKeys)
              /\ stab.summary.old_total = Cardinality(KeysOf(old_rows))
              /\ stab.summary.new_total = Cardinality(KeysOf(new_rows))
              /\ stab.summary.old_total =
                    stab.summary.shared_total + stab.summary.missing_in_new_total
              /\ stab.summary.new_total =
                    stab.summary.shared_total + stab.summary.new_only_total
        /\ stab.policy \notin {"error", "warn"} =>
              (stab.outcome = "ValueError" /\ stab.loads = 0)

\* C9 witness: under policy warn the check has returned a summary for files with
\* shared keys, baseline keys missing in the new file and a key only in the new file.
C9_Witness ==
    /\ stab # NoResult
    /\ stab.policy = "warn"
    /\ stab.outcome = "return"
    /\ stab.summary.missing_in_new_total > 0
    /\ stab.summary.shared_total > 0
    /\ stab.summary.new_only_total > 0

\* C10 as claimed: the caller gets the totals in every outcome of a check made under
\* a valid policy, hard failures included.
C10_TotalsInEveryOutcome ==
    (stab # NoResult /\ stab.policy \in {"error", "warn"}) => stab.summary # NoSummary

\* C10 as amended: the caller gets the totals exactly when the check returns, that
\* is when no shared key has differing chart ids and no baseline key is missing or
\* the policy is warn; a hard failure carries the kind of failure, the count and the
\* examples, and no totals.
C10_TotalsOnlyOnReturn ==
    stab # NoResult =>
        /\ stab.summary # NoSummary <=>
              /\ stab.policy \in {"error", "warn"}
              /\ MismatchedKeys = {}
              /\ (stab.policy = "warn" \/ MissingKeys = {})
        /\ stab.summary # NoSummary <=> stab.outcome = "return"
        /\ stab.outcome = "RuntimeError" =>
              (stab.kind \in {"mismatch", "missing"} /\ stab.count > 0)

\* C10 witness: a check under policy error has ended in a hard failure on a missing
\* key and handed the caller no totals.
C10_Witness ==
    /\ stab # NoResult
    /\ stab.policy = "error"
    /\ stab.outcome = "RuntimeError"
    /\ stab.kind = "missing"
    /\ stab.summary = NoSummary
    /\ SharedKeys # {}

(***************************************************************************)
(* Specification SpecNorm: normalize_text applied to a text, then to its   *)
(* own result.                                                             *)
(***************************************************************************)
MaxTextLen == 3

\* the texts of at most n characters over chars
TextsUpTo(chars, n) == UNION {[1..k -> chars] : k \in 0..n}

NormChars == {"A", "a", "J", " ", "\t", "|", "U+3000", "U+030C", "U+201C", "U+2212"}

\* what normalize_text is called with: a text, or None
NormInputs == TextsUpTo(NormChars, MaxTextLen) \cup {None}

InitNorm ==
    /\ InitRecon
    /\ InitStab
    /\ IdleTable
    /\ IdleSchema
    /\ nin \in NormInputs
    /\ nout = NoNorm
    /\ IdleKey
    /\ IdleLevel
    /\ IdleExt

\* y = normalize_text(x)
NormalizeOnce ==
    /\ nout.calls = 0
    /\ nout' = [calls |-> 1, first |-> normalize_text(nin), value |-> normalize_text(nin)]
    /\ UNCHANGED <<nin, keyVars, levelVars, extVars, tableVars, schemaVars>>
    /\ UNCHANGED reconVars
    /\ UNCHANGED stabVars

\* normalize_text(y)
NormalizeAgain ==
    /\ nout.calls = 1
    /\ nout' = [nout EXCEPT !.calls = 2, !.value = normalize_text(nout.first)]
    /\ UNCHANGED <<nin, keyVars, levelVars, extVars, tableVars, schemaVars>>
    /\ UNCHANGED reconVars
    /\ UNCHANGED stabVars

NextNorm ==
    \/ NormalizeOnce
    \/ NormalizeAgain

SpecNorm == InitNorm /\ [][NextNorm]_vars

(***************************************************************************)
(* Specification SpecKey: the music_key of two (title, artist) pairs, as   *)
(* build_music_key derives it and as upsert_music uses it on a fresh file. *)
(***************************************************************************)
MaxKeyLen == 1

KeyChars == {"A", "a", "|", " "}

KeyTexts == TextsUpTo(KeyChars, MaxKeyLen)

KeyInputs == [title : KeyTexts, artist : KeyTexts, title2 : KeyTexts, artist2 : KeyTexts]

InitKey ==
    /\ InitRecon
    /\ InitStab
    /\ IdleTable
    /\ IdleSchema
    /\ IdleNorm
    /\ kin \in KeyInputs
    /\ kout = NoKeys
    /\ IdleLevel
    /\ IdleExt

\* the SongRow of a (title, artist) pair
KeySong(title, artist) ==
    [title |-> title, artist |-> artist, genre |-> NULL, levels |-> ("sp_beginner" :> 1)]

\* build_music_key on each pair
BuildKeys ==
    /\ kout.op = "none"
    /\ kout' = [op |-> "build_music_key",
                key |-> build_music_key(kin.title, kin.artist),
                key2 |-> build_music_key(kin.title2, kin.artist2)]
    /\ UNCHANGED <<kin, normVars, levelVars, extVars, tableVars, schemaVars>>
    /\ UNCHANGED reconVars
    /\ UNCHANGED stabVars

\* upsert_music of the first pair, then of the second, on a fresh file
UpsertBoth ==
    /\ kout.op = "none"
    /\ LET r1 == upsert_music(init_schema, KeySong(kin.title, kin.artist), 1)
           r2 == upsert_music(r1.con, KeySong(kin.title2, kin.artist2), 2)
       IN  kout' = [op |-> "upsert_music",
                    first |-> r1.music_id,
                    second |-> r2.music_id,
                    music |-> r2.con.view.music]
    /\ UNCHANGED <<kin, normVars, levelVars, extVars, tableVars, schemaVars>>
    /\ UNCHANGED reconVars
    /\ UNCHANGED stabVars

NextKey ==
    \/ BuildKeys
    \/ UpsertBoth

SpecKey == InitKey /\ [][NextKey]_vars

(***************************************************************************)
(* C11..C13: key derivation and text normalization.                        *)
(***************************************************************************)
\* the two pairs have equal normalized titles and equal normalized artists
NormEqual ==
    /\ normalize_text(kin.title) = normalize_text(kin.title2)
    /\ normalize_text(kin.artist) = normalize_text(kin.artist2)

\* C11: music_key is a function of the normalized fields only: two pairs with
\* equal normalized titles and equal normalized artists get the same key from
\* build_music_key, and the key upsert_music inserts a row under and looks a
\* row up by is build_music_key(title, artist) of the record.
C11_KeyFromNormalizedFields ==
    /\ (kout.op = "build_music_key" /\ NormEqual) => kout.key = kout.key2
    /\ kout.op = "upsert_music" =>
          /\ \E r \in kout.music :
                /\ r.music_id = kout.first
                /\ r.music_key = build_music_key(kin.title, kin.artist)
          /\ \E r \in kout.music :
                /\ r.music_id = kout.second
                /\ r.music_key = build_music_key(kin.title2, kin.artist2)
          /\ (kout.second = kout.first) <=>
                (build_music_key(kin.title2, kin.artist2)
                    = build_music_key(kin.title, kin.artist))

\* two pairs that differ as written and agree once normalized were given keys
C11_Witness ==
    /\ kout.op = "build_music_key"
    /\ NormEqual
    /\ kin.title # kin.title2
    /\ kin.artist # kin.artist2
    /\ kout.key = kout.key2

\* C12: two pairs whose normalized title or normalized artist differ get
\* different music_keys, and are never merged into one music row.
C12_DistinctPairsDistinctKeys ==
    /\ (kout.op = "build_music_key" /\ ~NormEqual) => kout.key # kout.key2
    /\ (kout.op = "upsert_music" /\ ~NormEqual) => kout.first # kout.second

\* C13: normalize_text is total and idempotent: applied to its own result it
\* returns that result, and for None it returns the empty text.
C13_Idempotent ==
    /\ (nout.calls >= 1 /\ nin = None) => nout.first = <<>>
    /\ nout.calls = 2 => nout.value = nout.first

(***************************************************************************)
(* C14: the search key of the persisted music rows, against the structural *)
(* check of validate_db_schema_and_data.                                   *)
(***************************************************************************)
\* PRAGMA table_info(music) on the table init_schema creates: column -> notnull
music_table_info ==
    [music_id |-> 0, music_key |-> 1, title |-> 1, normalized_title |-> 1,
     artist |-> 1, normalized_artist |-> 1, genre |-> 0, is_active |-> 1,
     last_seen_at |-> 1, created_at |-> 1, updated_at |-> 1]

\* _assert_not_null_column: "ok", or which RuntimeError it raises
assert_not_null_column(table_info, column_name) ==
    IF column_name \in DOMAIN table_info
    THEN IF table_info[column_name] # 1 THEN "not_null_required" ELSE "ok"
    ELSE "column_missing"

\* SELECT COUNT(*) FROM music WHERE title_search_key IS NULL (a row without
\* the column has no search key either)
null_count(s) ==
    Cardinality({r \in s.music :
        "title_search_key" \notin DOMAIN r \/ r.title_search_key = NULL})

\* the stricter normalization of the search key: normalize_text, then
\* diacritics stripped
normalize_title_search_key(title) ==
    SelectSeq([i \in 1..Len(normalize_text(title)) |->
                  IF normalize_text(title)[i] = "U+01F0" THEN "j"
                  ELSE normalize_text(title)[i]],
              LAMBDA c : c # "U+030C")

\* C14: every persisted music row carries a non-null title_search_key equal to
\* the strict normalization of its title, so that the file passes the
\* structural check's NOT NULL and zero-null-search-key requirements.
C14_SearchKeyOnEveryMusic ==
    con.disk.music # {} =>
        /\ assert_not_null_column(music_table_info, "title_search_key") = "ok"
        /\ null_count(con.disk) = 0
        /\ \A r \in con.disk.music :
              r.title_search_key = normalize_title_search_key(r.title)

(***************************************************************************)
(* Specification SpecLevel: a level cell of the song table, parsed by      *)
(* _parse_level_cell (src/src/parser.py) and applied by apply_song.        *)
(***************************************************************************)
MaxCellLen == 3

LevelChars == {"0", "1", "2", "-", " ", "[", "C", "]"}

\* the texts of a level cell
LevelCells == TextsUpTo(LevelChars, MaxCellLen)

IsDigit(c) == c \in {"0", "1", "2", "3", "4", "5", "6", "7", "8", "9"}

DigitValue(c) ==
    CASE c = "0" -> 0 [] c = "1" -> 1 [] c = "2" -> 2 [] c = "3" -> 3
      [] c = "4" -> 4 [] c = "5" -> 5 [] c = "6" -> 6 [] c = "7" -> 7
      [] c = "8" -> 8 [] c = "9" -> 9

\* int(s) of a text of digits
RECURSIVE ToInt(_)
ToInt(s) ==
    IF s = <<>> THEN 0
    ELSE ToInt(SubSeq(s, 1, Len(s) - 1)) * 10 + DigitValue(s[Len(s)])

\* re.fullmatch(r"\d+", s)
IsDigits(s) == s # <<>> /\ \A i \in 1..Len(s) : IsDigit(s[i])

\* the position of the first "]" of s at or after i, 0 when there is none
RECURSIVE FirstClose(_, _)
FirstClose(s, i) ==
    IF i > Len(s) THEN 0
    ELSE IF s[i] = "]" THEN i ELSE FirstClose(s, i + 1)

\* re.sub(r"\[[^\]]+\]", "", s)
RECURSIVE RemoveBracketed(_)
RemoveBracketed(s) ==
    IF s = <<>> THEN <<>>
    ELSE IF Head(s) = "[" /\ FirstClose(s, 2) >= 3
         THEN RemoveBracketed(SubSeq(s, FirstClose(s, 2) + 1, Len(s)))
         ELSE <<Head(s)>> \o RemoveBracketed(Tail(s))

\* _parse_level_cell: None, ValidationError, or the int
parse_level_cell(text) ==
    LET s1 == Strip(text)
        s2 == Strip(RemoveBracketed(s1))
    IN  IF s1 = <<"-">> \/ s1 = <<>> THEN [kind |-> "none"]
        ELSE IF s2 = <<"-">> \/ s2 = <<>> THEN [kind |-> "none"]
        ELSE IF ~IsDigits(s2) THEN [kind |-> "error"]
        ELSE [kind |-> "int", level |-> ToInt(s2)]

InitLevel ==
    /\ InitRecon
    /\ InitStab
    /\ IdleTable
    /\ IdleSchema
    /\ IdleNorm
    /\ IdleKey
    /\ lin \in LevelCells
    /\ lout = NoLevel
    /\ IdleExt

\* the SongRow parse_song_table builds from a row whose SP BEGINNER cell gave
\* level and whose other level cells are "-"
LevelSong(level) ==
    [title |-> <<"A">>, artist |-> Artist, genre |-> NULL,
     levels |-> ("sp_beginner" :> level)]

\* sp_b = _parse_level_cell(cols[0])
ParseLevelCell ==
    /\ lout.step = "none"
    /\ lout' = [step |-> "parsed", cell |-> parse_level_cell(lin), chart |-> {}]
    /\ UNCHANGED <<lin, normVars, keyVars, extVars, tableVars, schemaVars>>
    /\ UNCHANGED reconVars
    /\ UNCHANGED stabVars

\* apply_song of the parsed row on a fresh file: the chart is inserted
ApplyParsedFresh ==
    /\ lout.step = "parsed"
    /\ lout.cell.kind = "int"
    /\ LET r == apply_song(init_schema, LevelSong(lout.cell.level), 1)
       IN  lout' = [lout EXCEPT !.step = "inserted", !.chart = r.con.view.chart]
    /\ UNCHANGED <<lin, normVars, keyVars, extVars, tableVars, schemaVars>>
    /\ UNCHANGED reconVars
    /\ UNCHANGED stabVars

\* apply_song of the parsed row on a file that has the song at level 1: the
\* chart is updated
ApplyParsedExisting ==
    /\ lout.step = "parsed"
    /\ lout.cell.kind = "int"
    /\ LET r1 == apply_song(init_schema, LevelSong(1), 1)
           r2 == apply_song(r1.con, LevelSong(lout.cell.level), r1.now)
       IN  lout' = [lout EXCEPT !.step = "updated", !.chart = r2.con.view.chart]
    /\ UNCHANGED <<lin, normVars, keyVars, extVars, tableVars, schemaVars>>
    /\ UNCHANGED reconVars
    /\ UNCHANGED stabVars

NextLevel ==
    \/ ParseLevelCell
    \/ ApplyParsedFresh
    \/ ApplyParsedExisting

SpecLevel == InitLevel /\ [][NextLevel]_vars

\* C15: every chart row has a level of at least 1, whatever level the batch
\* record carries: no chart is inserted with, or updated to, level 0 or less.
C15_LevelsPositive ==
    lout.step \in {"inserted", "updated"} => \A c \in lout.chart : c.level >= 1

(***************************************************************************)
(* C16: the chart slots a record has no level for.                         *)
(***************************************************************************)
\* the chart rows of store s in slot (play_style, difficulty) of the music
\* row with key mkey
SlotRows(s, mkey, play_style, difficulty) ==
    {c \in s.chart :
        /\ c.play_style = play_style
        /\ c.difficulty = difficulty
        /\ \E m \in s.music : m.music_id = c.music_id /\ m.music_key = mkey}

\* the entries of mapping
Slots == {mapping[i] : i \in 1..Len(mapping)}

\* an apply_song step leaves the rows of the slots its record has no level
\* for as they were: none inserted, none changed
AbsentSlotsUntouched ==
    (pc = "running" /\ pc' = "running" /\ batch' # batch) =>
        LET song == batch'[Len(batch')]
        IN  \A m \in Slots :
                IsNone(song, m[3]) =>
                    SlotRows(con'.view, KeyOf(song), m[1], m[2])
                        = SlotRows(con.view, KeyOf(song), m[1], m[2])

\* some record of b with the key of b[n] carries a level for the slot
CarriedByAnother(b, n, m) ==
    \E n2 \in 1..Len(b) : KeyOf(b[n2]) = KeyOf(b[n]) /\ ~IsNone(b[n2], m[3])

\* in store s, the rows that were in store before and are of a slot a record
\* of b has no level for are inactive
AbsentSlotsInactive(before, s, b) ==
    \A n \in 1..Len(b) : \A m \in Slots :
        IsNone(b[n], m[3]) =>
            \A c \in SlotRows(s, KeyOf(b[n]), m[1], m[2]) :
                (\E c0 \in before.chart : c0.chart_id = c.chart_id) => c.is_active = 0

\* the same, but for the slots another record of b with the same key carries
AbsentSlotsInactiveUnlessCarried(s, b) ==
    \A n \in 1..Len(b) : \A m \in Slots :
        (IsNone(b[n], m[3]) /\ ~CarriedByAnother(b, n, m)) =>
            \A c \in SlotRows(s, KeyOf(b[n]), m[1], m[2]) : c.is_active = 0

\* the run commits
CommitStep == pc = "running" /\ pc' = "idle" /\ lastRun' = "committed"

\* C16 as stated: apply_song neither creates nor touches the chart row of a
\* slot its record has no level for, and a row of that slot that existed
\* before the run ends the run inactive.
C16_AbsentSlotEndsInactive ==
    [][/\ AbsentSlotsUntouched
       /\ CommitStep => AbsentSlotsInactive(con.disk, con'.disk, batch')]_vars

\* C16 amended: apply_song neither creates nor touches the chart row of a
\* slot its record has no level for; the row ends the run inactive unless
\* another record of the batch with the same music_key carries a level for
\* that slot.
C16_AbsentSlotUntouched ==
    [][/\ AbsentSlotsUntouched
       /\ CommitStep => AbsentSlotsInactiveUnlessCarried(con'.disk, batch')]_vars

\* a committed run applied a record without DP LEGGENDARIA level to a song
\* whose DP LEGGENDARIA chart was active before the run: the row is as it was,
\* but inactive
C16_Witness ==
    /\ pc = "idle"
    /\ lastRun = "committed"
    /\ \E n \in 1..Len(batch) :
          /\ IsNone(batch[n], "dp_leggendaria")
          /\ ~CarriedByAnother(batch, n, <<"DP", "LEGGENDARIA", "dp_leggendaria">>)
          /\ \E c \in SlotRows(con.disk, KeyOf(batch[n]), "DP", "LEGGENDARIA") :
                /\ c.is_active = 0
                /\ [c EXCEPT !.is_active = 1] \in last.before.chart

(***************************************************************************)
(* _extract_js_object (src/src/textage_loader.py) over texts written as    *)
(* sequences of characters: the boundary scan and the rewrites.            *)
(***************************************************************************)
UpperChars ==
    {"A", "B", "C", "D", "E", "F", "G", "H", "I", "J", "K", "L", "M",
     "N", "O", "P", "Q", "R", "S", "T", "U", "V", "W", "X", "Y", "Z"}

LowerChars ==
    {"a", "b", "c", "d", "e", "f", "g", "h", "i", "j", "k", "l", "m",
     "n", "o", "p", "q", "r", "s", "t", "u", "v", "w", "x", "y", "z"}

\* \w of the regular expressions
IsWord(c) == c \in UpperChars \/ c \in LowerChars \/ IsDigit(c) \/ c = "_"

IsQuote(c) == c \in {"\"", "'"}

\* the text of a Python string literal
Chars(str) == [i \in 1..Len(str) |-> SubSeq(str, i, i)]

\* s[i:i+len(w)] == w
MatchAt(s, i, w) ==
    /\ i + Len(w) - 1 <= Len(s)
    /\ \A n \in 1..Len(w) : s[i + n - 1] = w[n]

\* the first position at or after i that holds no whitespace: \s* from i
RECURSIVE SkipSpaces(_, _)
SkipSpaces(s, i) ==
    IF i <= Len(s) /\ IsSpace(s[i]) THEN SkipSpaces(s, i + 1) ELSE i

\* the first position at or after i that holds c, 0 when there is none
RECURSIVE FindChar(_, _, _)
FindChar(s, i, c) ==
    IF i > Len(s) THEN 0
    ELSE IF s[i] = c THEN i ELSE FindChar(s, i + 1, c)

\* rf"{varname}\s*=\s*\{{" matched at i: the position of its "{", else 0
AssignBraceAt(s, i, varname) ==
    IF ~MatchAt(s, i, varname) THEN 0
    ELSE LET eq == SkipSpaces(s, i + Len(varname))
         IN  IF eq > Len(s) \/ s[eq] # "=" THEN 0
             ELSE LET br == SkipSpaces(s, eq + 1)
                  IN  IF br > Len(s) \/ s[br] # "{" THEN 0 ELSE br

\* re.search(rf"{varname}\s*=\s*\{{", js_text), then js_text.find("{", start):
\* brace_start as a position from 1, 0 when there is no match
RECURSIVE search_assignment(_, _, _)
search_assignment(js_text, varname, i) ==
    IF i > Len(js_text) THEN 0
    ELSE IF AssignBraceAt(js_text, i, varname) # 0
         THEN AssignBraceAt(js_text, i, varname)
         ELSE search_assignment(js_text, varname, i + 1)

\* the boundary scan returning the end of input when no closing brace is found
RECURSIVE scan_to_end_of_input(_, _, _, _, _, _)
scan_to_end_of_input(s, index, depth, in_str, escaped, str_char) ==
    IF index > Len(s) THEN Len(s)
    ELSE LET ch == s[index]
         IN  IF in_str
             THEN IF escaped
                  THEN scan_to_end_of_input(s, index + 1, depth, TRUE, FALSE, str_char)
                  ELSE IF ch = "\\"
                  THEN scan_to_end_of_input(s, index + 1, depth, TRUE, TRUE, str_char)
                  ELSE IF ch = str_char
                  THEN scan_to_end_of_input(s, index + 1, depth, FALSE, FALSE, str_char)
                  ELSE scan_to_end_of_input(s, index + 1, depth, TRUE, FALSE, str_char)
             ELSE IF IsQuote(ch)
                  THEN scan_to_end_of_input(s, index + 1, depth, TRUE, escaped, ch)
                  ELSE IF ch = "{"
                  THEN scan_to_end_of_input(s, index + 1, depth + 1, FALSE, escaped, str_char)
                  ELSE IF ch = "}"
                  THEN IF depth - 1 = 0 THEN index
                       ELSE scan_to_end_of_input(s, index + 1, depth - 1, FALSE, escaped, str_char)
                  ELSE scan_to_end_of_input(s, index + 1, depth, FALSE, escaped, str_char)

\* the boundary scan in which a backslash consumes nothing
RECURSIVE scan_end_index_no_escape(_, _, _, _, _, _)
scan_end_index_no_escape(s, index, depth, in_str, escaped, str_char) ==
    IF index > Len(s) THEN 0
    ELSE LET ch == s[index]
         IN  IF in_str
             THEN IF ch = str_char
                  THEN scan_end_index_no_escape(s, index + 1, depth, FALSE, FALSE, str_char)
                  ELSE scan_end_index_no_escape(s, index + 1, depth, TRUE, FALSE, str_char)
             ELSE IF IsQuote(ch)
                  THEN scan_end_index_no_escape(s, index + 1, depth, TRUE, escaped, ch)
                  ELSE IF ch = "{"
                  THEN scan_end_index_no_escape(s, index + 1, depth + 1, FALSE, escaped, str_char)
                  ELSE IF ch = "}"
                  THEN IF depth - 1 = 0 THEN index
                       ELSE scan_end_index_no_escape(s, index + 1, depth - 1, FALSE, escaped, str_char)
                  ELSE scan_end_index_no_escape(s, index + 1, depth, FALSE, escaped, str_char)

\* the while loop of the boundary scan from index on: end_index as a position
\* from 1, 0 for None
RECURSIVE scan_end_index(_, _, _, _, _, _)
scan_end_index(s, index, depth, in_str, escaped, str_char) ==
    IF index > Len(s) THEN 0
    ELSE LET ch == s[index]
         IN  IF in_str
             THEN IF escaped
                  THEN scan_end_index(s, index + 1, depth, TRUE, FALSE, str_char)
                  ELSE IF ch = "\\"
                  THEN scan_end_index(s, index + 1, depth, TRUE, TRUE, str_char)
                  ELSE IF ch = str_char
                  THEN scan_end_index(s, index + 1, depth, FALSE, FALSE, str_char)
                  ELSE scan_end_index(s, index + 1, depth, TRUE, FALSE, str_char)
             ELSE IF IsQuote(ch)
                  THEN scan_end_index(s, index + 1, depth, TRUE, escaped, ch)
                  ELSE IF ch = "{"
                  THEN scan_end_index(s, index + 1, depth + 1, FALSE, escaped, str_char)
                  ELSE IF ch = "}"
                  THEN IF depth - 1 = 0 THEN index
                       ELSE scan_end_index(s, index + 1, depth - 1, FALSE, escaped, str_char)
                  ELSE scan_end_index(s, index + 1, depth, FALSE, escaped, str_char)

\* the end of the run of characters satisfying a name or digit class from i:
\* the first position at or after i outside the class
RECURSIVE SkipNameChars(_, _)
SkipNameChars(s, i) ==
    IF i <= Len(s) /\ (s[i] \in UpperChars \/ IsDigit(s[i]) \/ s[i] = "_")
    THEN SkipNameChars(s, i + 1) ELSE i

RECURSIVE SkipDigits(_, _)
SkipDigits(s, i) == IF i <= Len(s) /\ IsDigit(s[i]) THEN SkipDigits(s, i + 1) ELSE i

\* r"([A-Z_][A-Z0-9_]*)\s*=\s*([0-9]+)\s*;" matched at i:
\* [ok, name, val, next position]
ConstMatchAt(s, i) ==
    LET nameEnd == SkipNameChars(s, i + 1)
        eq == SkipSpaces(s, nameEnd)
        valStart == SkipSpaces(s, eq + 1)
        valEnd == SkipDigits(s, valStart)
        semi == SkipSpaces(s, valEnd)
    IN  IF /\ (s[i] \in UpperChars \/ s[i] = "_")
           /\ eq <= Len(s) /\ s[eq] = "="
           /\ valEnd > valStart
           /\ semi <= Len(s) /\ s[semi] = ";"
        THEN [ok |-> TRUE, name |-> SubSeq(s, i, nameEnd - 1),
              val |-> SubSeq(s, valStart, valEnd - 1), next |-> semi + 1]
        ELSE [ok |-> FALSE, name |-> <<>>, val |-> <<>>, next |-> i + 1]

\* re.findall(r"([A-Z_][A-Z0-9_]*)\s*=\s*([0-9]+)\s*;", js_text) from i on
RECURSIVE find_consts(_, _)
find_consts(js_text, i) ==
    IF i > Len(js_text) THEN <<>>
    ELSE LET m == ConstMatchAt(js_text, i)
         IN  IF m.ok
             THEN <<[name |-> m.name, val |-> m.val]>> \o find_consts(js_text, m.next)
             ELSE find_consts(js_text, i + 1)

\* dict(pairs).items(): a key keeps the place of its first pair and the value
\* of its last
DictItems(pairs) ==
    LET firsts == {n \in 1..Len(pairs) : \A k \in 1..(n - 1) : pairs[k].name # pairs[n].name}
        LastOf(n) == CHOOSE k \in 1..Len(pairs) :
                        /\ pairs[k].name = pairs[n].name
                        /\ \A k2 \in (k + 1)..Len(pairs) : pairs[k2].name # pairs[n].name
        Nth(S, j) == CHOOSE n \in S : Cardinality({k \in S : k < n}) = j - 1
    IN  [j \in 1..Cardinality(firsts) |-> pairs[LastOf(Nth(firsts, j))]]

\* rf"(?<![\"'])\b{name}\b(?![\"'])" matches at i
ConstOccursAt(s, i, name) ==
    /\ MatchAt(s, i, name)
    /\ i > 1 => (~IsQuote(s[i - 1]) /\ ~IsWord(s[i - 1]))
    /\ i + Len(name) <= Len(s) => (~IsQuote(s[i + Len(name)]) /\ ~IsWord(s[i + Len(name)]))

\* re.sub(rf"(?<![\"'])\b{name}\b(?![\"'])", f"-{val}", obj_text) from i on
RECURSIVE sub_const(_, _, _, _)
sub_const(s, i, name, val) ==
    IF i > Len(s) THEN <<>>
    ELSE IF ConstOccursAt(s, i, name)
         THEN <<"-">> \o val \o sub_const(s, i + Len(name), name, val)
         ELSE <<s[i]>> \o sub_const(s, i + 1, name, val)

\* for name, val in consts.items(): obj_text = re.sub(...), from the n-th item on
RECURSIVE substitute_consts(_, _, _)
substitute_consts(obj_text, consts, n) ==
    IF n > Len(consts) THEN obj_text
    ELSE substitute_consts(sub_const(obj_text, 1, consts[n].name, consts[n].val),
                           consts, n + 1)

\* re.sub(r"//[^\n]*(?=\n|$)", "", obj_text) from i on
RECURSIVE strip_line_comments(_, _)
strip_line_comments(s, i) ==
    IF i > Len(s) THEN <<>>
    ELSE IF MatchAt(s, i, <<"/", "/">>)
         THEN LET nl == FindChar(s, i + 2, "\n")
              IN  IF nl = 0 THEN <<>> ELSE strip_line_comments(s, nl)
         ELSE <<s[i]>> \o strip_line_comments(s, i + 1)

\* re.sub(r"\.fontcolor\([^)]*\)", "", obj_text) from i on
RECURSIVE strip_fontcolor(_, _)
strip_fontcolor(s, i) ==
    IF i > Len(s) THEN <<>>
    ELSE IF MatchAt(s, i, Chars(".fontcolor(")) /\ FindChar(s, i + 11, ")") # 0
         THEN strip_fontcolor(s, FindChar(s, i + 11, ")") + 1)
         ELSE <<s[i]>> \o strip_fontcolor(s, i + 1)

\* re.sub(r"'([^']*?)'(\s*):", r'"\1"\2:', obj_text) from i on
RECURSIVE quote_single_keys(_, _)
quote_single_keys(s, i) ==
    IF i > Len(s) THEN <<>>
    ELSE LET close == FindChar(s, i + 1, "'")
             colon == SkipSpaces(s, close + 1)
         IN  IF s[i] = "'" /\ close # 0 /\ colon <= Len(s) /\ s[colon] = ":"
             THEN <<"\"">> \o SubSeq(s, i + 1, close - 1) \o <<"\"">>
                      \o SubSeq(s, close + 1, colon) \o quote_single_keys(s, colon + 1)
             ELSE <<s[i]>> \o quote_single_keys(s, i + 1)

\* the three re.sub calls quoting a bare A-F between "," or "[" and "," or "]"
\* (the look-around characters are never rewritten, so one pass does all three)
quote_bare_letters(s) ==
    LET Bare(i) ==
            /\ s[i] \in {"A", "B", "C", "D", "E", "F"}
            /\ i > 1 /\ i < Len(s)
            /\ \/ s[i - 1] = "," /\ s[i + 1] = ","
               \/ s[i - 1] = "[" /\ s[i + 1] = ","
               \/ s[i - 1] = "," /\ s[i + 1] = "]"
        RECURSIVE From(_)
        From(i) ==
            IF i > Len(s) THEN <<>>
            ELSE IF Bare(i) THEN <<"\"", s[i], "\"">> \o From(i + 1)
                 ELSE <<s[i]>> \o From(i + 1)
    IN  From(1)

\* the closing quote of r'"((?:\\.|[^"\\\n])*)"' whose body starts at j, 0 when
\* the pattern does not match
RECURSIVE LiteralEnd(_, _)
LiteralEnd(s, j) ==
    IF j > Len(s) THEN 0
    ELSE IF s[j] = "\"" THEN j
    ELSE IF s[j] = "\n" THEN 0
    ELSE IF s[j] = "\\"
         THEN IF j + 1 <= Len(s) /\ s[j + 1] # "\n" THEN LiteralEnd(s, j + 2) ELSE 0
         ELSE LiteralEnd(s, j + 1)

\* f"\\u{ord(ch):04x}" for the control characters of the model
CtrlEscape(ch) ==
    CASE ch = "\t" -> <<"\\", "u", "0", "0", "0", "9">>
      [] ch = "\r" -> <<"\\", "u", "0", "0", "0", "d">>
      [] ch = "\n" -> <<"\\", "u", "0", "0", "0", "a">>

\* ord(ch) < 0x20
IsControl(ch) == ch \in {"\t", "\r", "\n"}

\* the while loop of _escape_ctrl over src from idx on
RECURSIVE escape_src(_, _)
escape_src(src, idx) ==
    IF idx > Len(src) THEN <<>>
    ELSE IF src[idx] = "\\" /\ idx + 1 <= Len(src)
         THEN <<src[idx], src[idx + 1]>> \o escape_src(src, idx + 2)
         ELSE IF IsControl(src[idx])
              THEN CtrlEscape(src[idx]) \o escape_src(src, idx + 1)
              ELSE <<src[idx]>> \o escape_src(src, idx + 1)

\* re.sub(r'"((?:\\.|[^"\\\n])*)"', _escape_ctrl, obj_text) from i on
RECURSIVE escape_ctrl(_, _)
escape_ctrl(s, i) ==
    IF i > Len(s) THEN <<>>
    ELSE IF s[i] = "\"" /\ LiteralEnd(s, i + 1) # 0
         THEN <<"\"">> \o escape_src(SubSeq(s, i + 1, LiteralEnd(s, i + 1) - 1), 1)
                  \o <<"\"">> \o escape_ctrl(s, LiteralEnd(s, i + 1) + 1)
         ELSE <<s[i]>> \o escape_ctrl(s, i + 1)

(***************************************************************************)
(* json.loads.  A parsed value is [t, v]: its type and its text in a       *)
(* canonical form (elems: the values of a list), that is, its text         *)
(* without whitespace (a str: its literal as written; a mapping: its keys   *)
(* once, each with its last value).                                        *)
(***************************************************************************)
JsonFail == [ok |-> FALSE, next |-> 0, t |-> "none", v |-> <<>>, elems |-> <<>>]

IsHex(c) == IsDigit(c) \/ c \in {"a", "b", "c", "d", "e", "f", "A", "B", "C", "D", "E", "F"}

\* the closing quote of a JSON string whose body starts at j, 0 when invalid
RECURSIVE JsonStringEnd(_, _)
JsonStringEnd(s, j) ==
    IF j > Len(s) THEN 0
    ELSE IF s[j] = "\"" THEN j
    ELSE IF IsControl(s[j]) THEN 0
    ELSE IF s[j] = "\\"
         THEN IF j + 1 <= Len(s) /\ s[j + 1] \in {"\"", "\\", "/", "b", "f", "n", "r", "t"}
              THEN JsonStringEnd(s, j + 2)
              ELSE IF /\ j + 5 <= Len(s)
                      /\ s[j + 1] = "u"
                      /\ \A k \in 2..5 : IsHex(s[j + k])
                   THEN JsonStringEnd(s, j + 6)
                   ELSE 0
         ELSE JsonStringEnd(s, j + 1)

\* NUMBER_RE of json.scanner matched at i: [ok, next, t, v]
JsonNumber(s, i) ==
    LET p0 == IF s[i] = "-" THEN i + 1 ELSE i
        intEnd == IF p0 > Len(s) THEN 0
                  ELSE IF s[p0] = "0" THEN p0 + 1
                  ELSE IF IsDigit(s[p0]) THEN SkipDigits(s, p0)
                  ELSE 0
        fracEnd == IF /\ intEnd <= Len(s) /\ s[intEnd] = "."
                      /\ SkipDigits(s, intEnd + 1) > intEnd + 1
                   THEN SkipDigits(s, intEnd + 1) ELSE intEnd
        expDigits == IF fracEnd + 1 <= Len(s) /\ s[fracEnd + 1] \in {"+", "-"}
                     THEN fracEnd + 2 ELSE fracEnd + 1
        expEnd == IF /\ fracEnd <= Len(s) /\ s[fracEnd] \in {"e", "E"}
                     /\ SkipDigits(s, expDigits) > expDigits
                  THEN SkipDigits(s, expDigits) ELSE fracEnd
    IN  IF intEnd = 0 THEN JsonFail
        ELSE IF expEnd > intEnd
             THEN [ok |-> TRUE, next |-> expEnd, t |-> "float", v |-> SubSeq(s, i, expEnd - 1),
                   elems |-> <<>>]
             ELSE [ok |-> TRUE, next |-> intEnd, t |-> "int",
                   v |-> IF SubSeq(s, i, intEnd - 1) = <<"-", "0">> THEN <<"0">>
                         ELSE SubSeq(s, i, intEnd - 1),
                   elems |-> <<>>]

\* the literals json.scanner knows, as [text in the source, canonical value]
JsonLiterals ==
    {<<Chars("true"), Chars("true")>>, <<Chars("false"), Chars("false")>>,
     <<Chars("null"), Chars("null")>>, <<Chars("NaN"), Chars("NaN")>>,
     <<Chars("Infinity"), Chars("Infinity")>>, <<Chars("-Infinity"), Chars("-Infinity")>>}

\* the canonical text of a list of values, of a list of (key, value) pairs
RECURSIVE JoinValues(_, _)
JoinValues(elems, n) ==
    IF n > Len(elems) THEN <<>>
    ELSE (IF n > 1 THEN <<",">> ELSE <<>>) \o elems[n].v \o JoinValues(elems, n + 1)

RECURSIVE JoinMembers(_, _)
JoinMembers(pairs, n) ==
    IF n > Len(pairs) THEN <<>>
    ELSE (IF n > 1 THEN <<",">> ELSE <<>>) \o <<"\"">> \o pairs[n].name \o <<"\"", ":">>
             \o pairs[n].val \o JoinMembers(pairs, n + 1)

RECURSIVE ParseValue(_, _), ParseElements(_, _, _), ParseMembers(_, _, _)

\* scan_once at i: [ok, next, t, v]
ParseValue(s, i) ==
    IF i > Len(s) THEN JsonFail
    ELSE IF s[i] = "\""
    THEN LET close == JsonStringEnd(s, i + 1)
         IN  IF close = 0 THEN JsonFail
             ELSE [ok |-> TRUE, next |-> close + 1, t |-> "str", v |-> SubSeq(s, i, close),
                   elems |-> <<>>]
    ELSE IF s[i] = "["
    THEN LET first == SkipSpaces(s, i + 1)
         IN  IF first <= Len(s) /\ s[first] = "]"
             THEN [ok |-> TRUE, next |-> first + 1, t |-> "list", v |-> <<"[", "]">>,
                   elems |-> <<>>]
             ELSE LET r == ParseElements(s, first, <<>>)
                  IN  IF ~r.ok THEN JsonFail
                      ELSE [ok |-> TRUE, next |-> r.next, t |-> "list",
                            v |-> <<"[">> \o JoinValues(r.elems, 1) \o <<"]">>,
                            elems |-> r.elems]
    ELSE IF s[i] = "{"
    THEN LET first == SkipSpaces(s, i + 1)
         IN  IF first <= Len(s) /\ s[first] = "}"
             THEN [ok |-> TRUE, next |-> first + 1, t |-> "dict", v |-> <<"{", "}">>,
                   elems |-> <<>>]
             ELSE LET r == ParseMembers(s, first, <<>>)
                  IN  IF ~r.ok THEN JsonFail
                      ELSE [ok |-> TRUE, next |-> r.next, t |-> "dict",
                            v |-> <<"{">> \o JoinMembers(DictItems(r.pairs), 1) \o <<"}">>,
                            elems |-> <<>>]
    ELSE IF \E l \in JsonLiterals : MatchAt(s, i, l[1])
    THEN LET l == CHOOSE l \in JsonLiterals : MatchAt(s, i, l[1])
         IN  [ok |-> TRUE, next |-> i + Len(l[1]), t |-> "literal", v |-> l[2], elems |-> <<>>]
    ELSE IF s[i] = "-" \/ IsDigit(s[i]) THEN JsonNumber(s, i)
    ELSE JsonFail

\* the loop of JSONArray from the value at i on: [ok, next, elems]
ParseElements(s, i, elems) ==
    LET val == ParseValue(s, i)
        sep == SkipSpaces(s, val.next)
    IN  IF ~val.ok \/ sep > Len(s) THEN [ok |-> FALSE, next |-> 0, elems |-> <<>>]
        ELSE IF s[sep] = "]"
        THEN [ok |-> TRUE, next |-> sep + 1, elems |-> Append(elems, [t |-> val.t, v |-> val.v])]
        ELSE IF s[sep] = ","
        THEN ParseElements(s, SkipSpaces(s, sep + 1), Append(elems, [t |-> val.t, v |-> val.v]))
        ELSE [ok |-> FALSE, next |-> 0, elems |-> <<>>]

\* the loop of JSONObject from the key at i on: [ok, next, pairs]
ParseMembers(s, i, pairs) ==
    LET close == IF i <= Len(s) /\ s[i] = "\"" THEN JsonStringEnd(s, i + 1) ELSE 0
        colon == SkipSpaces(s, close + 1)
        val == ParseValue(s, SkipSpaces(s, colon + 1))
        sep == SkipSpaces(s, val.next)
        pair == [name |-> SubSeq(s, i + 1, close - 1), val |-> val.v]
    IN  IF close = 0 \/ colon > Len(s) THEN [ok |-> FALSE, next |-> 0, pairs |-> <<>>]
        ELSE IF s[colon] # ":" THEN [ok |-> FALSE, next |-> 0, pairs |-> <<>>]
        ELSE IF ~val.ok \/ sep > Len(s) THEN [ok |-> FALSE, next |-> 0, pairs |-> <<>>]
        ELSE IF s[sep] = "}"
        THEN [ok |-> TRUE, next |-> sep + 1, pairs |-> Append(pairs, pair)]
        ELSE IF s[sep] = ","
        THEN ParseMembers(s, SkipSpaces(s, sep + 1), Append(pairs, pair))
        ELSE [ok |-> FALSE, next |-> 0, pairs |-> <<>>]

\* json.loads(text): [ok, t, v, elems]; ok = FALSE is json.JSONDecodeError
json_loads(text) ==
    LET val == ParseValue(text, SkipSpaces(text, 1))
    IN  IF val.ok /\ SkipSpaces(text, val.next) > Len(text)
        THEN [ok |-> TRUE, t |-> val.t, v |-> val.v, elems |-> val.elems]
        ELSE [ok |-> FALSE, t |-> "none", v |-> <<>>, elems |-> <<>>]

(***************************************************************************)
(* The two extraction modes and _extract_js_object itself.                 *)
(***************************************************************************)
\* the first position at or after i that holds a quote of either kind, else 0
RECURSIVE FindQuote(_, _)
FindQuote(s, i) ==
    IF i > Len(s) THEN 0
    ELSE IF IsQuote(s[i]) THEN i ELSE FindQuote(s, i + 1)

\* entry_re matched at i: [ok, key, arr_text, next position]
EntryMatchAt(s, i) ==
    LET keyEnd == FindQuote(s, i + 1)
        colon == SkipSpaces(s, keyEnd + 1)
        open == SkipSpaces(s, colon + 1)
        close == FindChar(s, open + 1, "]")
    IN  IF /\ IsQuote(s[i])
           /\ keyEnd > i + 1
           /\ colon <= Len(s) /\ s[colon] = ":"
           /\ open <= Len(s) /\ s[open] = "["
           /\ close # 0
        THEN [ok |-> TRUE, key |-> SubSeq(s, i + 1, keyEnd - 1),
              arr_text |-> SubSeq(s, open, close), next |-> close + 1]
        ELSE [ok |-> FALSE, key |-> <<>>, arr_text |-> <<>>, next |-> i + 1]

\* entry_re.findall(obj_text) from i on: the (key, arr_text) pairs in order
RECURSIVE entry_findall(_, _)
entry_findall(s, i) ==
    IF i > Len(s) THEN <<>>
    ELSE LET m == EntryMatchAt(s, i)
         IN  IF m.ok
             THEN <<[key |-> m.key, arr_text |-> m.arr_text]>> \o entry_findall(s, m.next)
             ELSE entry_findall(s, i + 1)

\* str(value) of a parsed value, as a str value
PyStr(val) ==
    CASE val.t = "str" -> val
      [] val.t = "literal" ->
            [t |-> "str",
             v |-> <<"\"">> \o (CASE val.v = Chars("true") -> Chars("True")
                                  [] val.v = Chars("false") -> Chars("False")
                                  [] val.v = Chars("null") -> Chars("None")
                                  [] val.v = Chars("NaN") -> Chars("nan")
                                  [] val.v = Chars("Infinity") -> Chars("inf")
                                  [] val.v = Chars("-Infinity") -> Chars("-inf"))
                        \o <<"\"">>]
      [] OTHER -> [t |-> "str", v |-> <<"\"">> \o val.v \o <<"\"">>]

\* the per-entry loop without its coercion of arr[0]
CoerceNothing(arr) == arr

\* arr after `if isinstance(arr, list) and arr: arr[0] = str(arr[0])`
CoerceFirst(arr) ==
    IF arr = <<>> THEN arr ELSE [arr EXCEPT ![1] = PyStr(arr[1])]

\* the per-entry loop from the n-th entry on: result as the set of its items
RECURSIVE parse_entries(_, _, _)
parse_entries(entries, n, result) ==
    IF n > Len(entries) THEN result
    ELSE LET arr == json_loads(entries[n].arr_text)
         IN  IF ~arr.ok THEN parse_entries(entries, n + 1, result)
             ELSE parse_entries(entries, n + 1,
                     {e \in result : e.key # entries[n].key}
                         \cup {[key |-> entries[n].key, arr |-> CoerceFirst(arr.elems)]})

\* the rewrites between constant substitution and the parse
rewrite_pipeline(substituted) ==
    quote_bare_letters(
        quote_single_keys(strip_fontcolor(strip_line_comments(substituted, 1), 1), 1))

\* a RuntimeError of _extract_js_object
Raised(error, brace_start, end_index) ==
    [outcome |-> "raised", error |-> error, brace_start |-> brace_start,
     end_index |-> end_index, obj_text |-> <<>>, consts |-> <<>>,
     substituted |-> <<>>, entries |-> <<>>, mapping |-> {}, document |-> <<>>]

\* _extract_js_object(js_text, varname): what it raises or returns (mapping in
\* per-entry mode, document in whole-document mode), with the values of its
\* local variables
extract_js_object(js_text, varname) ==
    LET brace_start == search_assignment(js_text, varname, 1)
        end_index == scan_end_index(js_text, brace_start, 0, FALSE, FALSE, "")
        obj_text == SubSeq(js_text, brace_start, end_index)
        consts == DictItems(find_consts(js_text, 1))
        substituted == substitute_consts(obj_text, consts, 1)
        rewritten == rewrite_pipeline(substituted)
        entries == entry_findall(rewritten, 1)
        doc == json_loads(escape_ctrl(rewritten, 1))
        done == [outcome |-> "returned", error |-> "none", brace_start |-> brace_start,
                 end_index |-> end_index, obj_text |-> obj_text, consts |-> consts,
                 substituted |-> substituted, entries |-> <<>>, mapping |-> {},
                 document |-> <<>>]
    IN  IF brace_start = 0 THEN Raised("not_found", 0, 0)
        ELSE IF end_index = 0 THEN Raised("no_end", brace_start, 0)
        ELSE IF varname = Chars("titletbl")
        THEN [done EXCEPT !.entries = entries,
                          !.mapping = parse_entries(entries, 1, {})]
        ELSE IF ~doc.ok THEN Raised("json", brace_start, end_index)
        ELSE [done EXCEPT !.document = doc.v]

(***************************************************************************)
(* Specification SpecExt: _extract_js_object on a JavaScript source made   *)
(* of a constant declaration, the assignment of the table, entries,        *)
(* the closing brace and what follows it.                                  *)
(***************************************************************************)
MaxItems == 2

\* the tables extracted per entry and as a whole document
Varnames == {Chars("titletbl"), Chars("datatbl"), Chars("actbl")}

\* what may precede the assignment
Declarations == {<<>>, Chars("SS=35;\n")}

\* the entries of the object body
Items ==
    {Chars("\"k1\":[SS,\"T\"]"),
     Chars("\"k2\":[0,\"a SS b\"]"),
     Chars("'k3':[A,1]"),
     Chars("\"k4\":[1,,2]"),
     Chars("\"k5\":[2] // it's\n"),
     Chars("\"k6\":[\"a\\\"}\"]"),
     Chars("\"k7\":[3,\"a]"),
     Chars("\"k1\":[4]// c\n"),
     Chars("\"k9\":[\"x\".fontcolor(1)]")}

\* entries with a non-finite number and with control characters in a literal
LiteralItems ==
    {Chars("\"kn\":[NaN]"),
     Chars("\"kt\":[\"it's\tb\"]"),
     Chars("\"kl\":[\"a\nb\"]")}

\* how the object body ends
Closings == {Chars("}"), <<>>}

\* what may follow the object
Trailers == {<<>>, Chars("; // c"), Chars(";SS=35;")}

\* the entries of a body separated by commas
RECURSIVE JoinItems(_, _)
JoinItems(items, n) ==
    IF n > Len(items) THEN <<>>
    ELSE (IF n > 1 THEN <<",">> ELSE <<>>) \o items[n] \o JoinItems(items, n + 1)

\* the bodies of up to MaxItems entries, and those of an entry of LiteralItems
\* alone, before and after an entry of Items
Bodies ==
    {JoinItems(items, 1) : items \in UNION {[1..k -> Items] : k \in 0..MaxItems}}
    \cup {JoinItems(<<i>>, 1) : i \in LiteralItems}
    \cup {JoinItems(<<i, j>>, 1) : i \in LiteralItems, j \in Items}
    \cup {JoinItems(<<j, i>>, 1) : i \in LiteralItems, j \in Items}

\* the sources that assign the table, and one that does not
SourceTexts(varname) ==
    {d \o varname \o <<"=", "{">> \o b \o c \o t :
        d \in Declarations, b \in Bodies, c \in Closings, t \in Trailers}
    \cup {Chars("var a={};")}

\* the sources that assign actbl: a nested object and one entry of its
\* categories, which may be followed by an entry of Items
ActSources ==
    {Chars("actbl={\"k0\":{\"it's\":[1]},\"k1\":[3,A,F,0]") \o b \o Chars("}") :
        b \in {<<>>} \cup {<<",">> \o i : i \in Items \cup LiteralItems}}

ExtInputs ==
    UNION {{[text |-> x, varname |-> v] :
              x \in IF v = Chars("actbl") THEN ActSources ELSE SourceTexts(v)} : v \in Varnames}

InitExt ==
    /\ InitRecon
    /\ InitStab
    /\ IdleTable
    /\ IdleSchema
    /\ IdleNorm
    /\ IdleKey
    /\ IdleLevel
    /\ js \in ExtInputs
    /\ ext = NoExtract

\* parsed = _extract_js_object(js, varname)
Extract ==
    /\ ext = NoExtract
    /\ ext' = extract_js_object(js.text, js.varname)
    /\ UNCHANGED <<js, normVars, keyVars, levelVars, tableVars, schemaVars>>
    /\ UNCHANGED reconVars
    /\ UNCHANGED stabVars

NextExt == Extract

SpecExt == InitExt /\ [][NextExt]_vars

(***************************************************************************)
(* C17..C20: the extractor.                                                *)
(***************************************************************************)
\* the scan of spec 4.1 as a transition on [depth, in_str, escaped, quote,
\* closed]: closed once the brace that opened the object is matched
ScanStart == [depth |-> 0, in_str |-> FALSE, escaped |-> FALSE, quote |-> "", closed |-> FALSE]

ScanStep(st, ch) ==
    IF st.closed THEN st
    ELSE IF st.in_str
    THEN IF st.escaped THEN [st EXCEPT !.escaped = FALSE]
         ELSE IF ch = "\\" THEN [st EXCEPT !.escaped = TRUE]
         ELSE IF ch = st.quote THEN [st EXCEPT !.in_str = FALSE]
         ELSE st
    ELSE IF IsQuote(ch) THEN [st EXCEPT !.in_str = TRUE, !.quote = ch]
    ELSE IF ch = "{" THEN [st EXCEPT !.depth = @ + 1]
    ELSE IF ch = "}" THEN [st EXCEPT !.depth = @ - 1, !.closed = (st.depth = 1)]
    ELSE st

\* the state of that scan once it has read s[from..n]
RECURSIVE ScanStateAfter(_, _, _)
ScanStateAfter(s, from, n) ==
    IF n < from THEN ScanStart ELSE ScanStep(ScanStateAfter(s, from, n - 1), s[n])

\* the source holds no `identifier = {` for the table looked for
NoAssignment ==
    \A i \in 1..Len(js.text) : AssignBraceAt(js.text, i, js.varname) = 0

\* the first `identifier = {` of the source: the position of its brace
FirstBrace ==
    LET i == CHOOSE i \in 1..Len(js.text) :
                /\ AssignBraceAt(js.text, i, js.varname) # 0
                /\ \A k \in 1..(i - 1) : AssignBraceAt(js.text, k, js.varname) = 0
    IN  AssignBraceAt(js.text, i, js.varname)

\* the state in which the scan from the object's brace reaches the end of input
ScanAtEnd == ScanStateAfter(js.text, FirstBrace, Len(js.text))

\* the scan reaches the end of input inside a string or with depth above zero
ScanExhausted ==
    /\ ~NoAssignment
    /\ ~ScanAtEnd.closed
    /\ ScanAtEnd.in_str \/ ScanAtEnd.depth > 0

\* C17: extraction raises, returning no mapping, whenever the source holds no
\* `identifier = {` for the table, or the boundary scan reaches the end of
\* input inside a string literal or with brace depth above zero.
C17_FailsWithoutMapping ==
    ext.outcome # "none" =>
        /\ NoAssignment =>
              ext.outcome = "raised" /\ ext.error = "not_found"
        /\ ScanExhausted =>
              ext.outcome = "raised" /\ ext.error = "no_end"
        /\ (NoAssignment \/ ScanExhausted) =>
              ext.mapping = {} /\ ext.document = <<>>

\* an extraction was given a source whose object ends inside a string literal
C17_Witness ==
    /\ ext.outcome = "raised"
    /\ ext.error = "no_end"
    /\ ScanExhausted
    /\ ScanAtEnd.in_str

\* the constants declared before the object: name, value of the last declaration
EarlierConsts == DictItems(find_consts(SubSeq(js.text, 1, ext.brace_start - 1), 1))

\* position i of s is outside every string literal of s
Unquoted(s, i) == ~ScanStateAfter(s, 1, i - 1).in_str

\* name stands at i of s as a whole word
WordAt(s, i, name) ==
    /\ MatchAt(s, i, name)
    /\ i > 1 => ~IsWord(s[i - 1])
    /\ i + Len(name) <= Len(s) => ~IsWord(s[i + Len(name)])

\* s with the unquoted occurrences of name replaced by the negated value
RECURSIVE ReplaceUnquoted(_, _, _, _)
ReplaceUnquoted(s, i, name, val) ==
    IF i > Len(s) THEN <<>>
    ELSE IF WordAt(s, i, name) /\ Unquoted(s, i)
         THEN <<"-">> \o val \o ReplaceUnquoted(s, i + Len(name), name, val)
         ELSE <<s[i]>> \o ReplaceUnquoted(s, i + 1, name, val)

\* s with the unquoted occurrences of each of the constants replaced
RECURSIVE ReplaceAllUnquoted(_, _, _)
ReplaceAllUnquoted(s, consts, n) ==
    IF n > Len(consts) THEN s
    ELSE ReplaceAllUnquoted(ReplaceUnquoted(s, 1, consts[n].name, consts[n].val),
                            consts, n + 1)

\* C18: constant substitution replaces exactly the unquoted occurrences, in
\* the object body, of each NAME declared `NAME = <int>;` earlier in the
\* source by the negated value: text in a string literal is unchanged, a
\* declaration that is not earlier has no effect; in per-entry mode the entry
\* [SS,"T"] after SS=35 has "-35" as its first element.
C18_ExactSubstitution ==
    ext.outcome = "returned" =>
        /\ ext.substituted = ReplaceAllUnquoted(ext.obj_text, EarlierConsts, 1)
        /\ (js.varname = Chars("titletbl") /\ EarlierConsts # <<>>) =>
              \A e \in ext.mapping :
                  (Len(e.arr) = 2 /\ e.arr[2].v = Chars("\"T\"")) =>
                      e.arr[1] = [t |-> "str", v |-> Chars("\"-35\"")]

\* the source without its line comments: every `//` outside a string literal,
\* up to its line break or the end of input
RECURSIVE RemoveLineComments(_, _, _)
RemoveLineComments(s, i, st) ==
    IF i > Len(s) THEN <<>>
    ELSE IF ~st.in_str /\ MatchAt(s, i, <<"/", "/">>)
         THEN IF FindChar(s, i + 2, "\n") = 0 THEN <<>>
              ELSE RemoveLineComments(s, FindChar(s, i + 2, "\n"), st)
         ELSE <<s[i]>> \o RemoveLineComments(s, i + 1, [ScanStep(st, s[i]) EXCEPT !.closed = FALSE])

\* what the caller of an extraction gets
Outcome(e) == [outcome |-> e.outcome, mapping |-> e.mapping, document |-> e.document]

\* C19: line comments never change the extraction result: the source
\* extracts what the same source without its comments extracts, also when a
\* comment runs to the end of input.
C19_CommentsChangeNothing ==
    ext.outcome # "none" =>
        Outcome(ext) = Outcome(extract_js_object(
                           RemoveLineComments(js.text, 1, ScanStart), js.varname))

\* the n-th entry found is the last one of its key that parses
LastParsed(entries, n) ==
    /\ json_loads(entries[n].arr_text).ok
    /\ \A n2 \in (n + 1)..Len(entries) :
          entries[n2].key = entries[n].key => ~json_loads(entries[n2].arr_text).ok

RewrittenBody ==
    escape_ctrl(
        rewrite_pipeline(
            substitute_consts(SubSeq(js.text, ext.brace_start, ext.end_index),
                              DictItems(find_consts(js.text, 1)), 1)), 1)

\* one of the names NaN, Infinity stands in s at or after i outside the string
\* literals of s
RECURSIVE NonFiniteFrom(_, _)
NonFiniteFrom(s, i) ==
    IF i > Len(s) THEN FALSE
    ELSE IF s[i] = "\""
         THEN JsonStringEnd(s, i + 1) # 0 /\ NonFiniteFrom(s, JsonStringEnd(s, i + 1) + 1)
         ELSE \/ MatchAt(s, i, Chars("NaN"))
              \/ MatchAt(s, i, Chars("Infinity"))
              \/ NonFiniteFrom(s, i + 1)

\* s is one document of the data-interchange grammar (RFC 8259), which has no
\* NaN, Infinity or -Infinity
StrictDocument(s) == json_loads(s).ok /\ ~NonFiniteFrom(s, 1)

\* the boundary of the object was found
BoundaryFound == ext.outcome # "none" /\ ~(ext.error \in {"not_found", "no_end"})

\* C21: in whole-document mode (every table other than titletbl) extraction
\* returns a mapping only if the whole rewritten object body parses as one
\* strict JSON document; any syntax violation left in the body raises and
\* no entry of the table is returned.
C21_WholeDocumentStrict ==
    (js.varname # Chars("titletbl") /\ BoundaryFound) =>
        /\ (ext.outcome = "returned") <=> StrictDocument(RewrittenBody)
        /\ ext.outcome = "returned" => ext.document = json_loads(RewrittenBody).v
        /\ ext.outcome = "raised" =>
              ext.error = "json" /\ ext.mapping = {} /\ ext.document = <<>>

(***************************************************************************)
(* Specification SpecTable: parse_song_table (src/src/parser.py) on the    *)
(* rows of a song table.  A row (tr) is the sequence of its td cells, a    *)
(* cell is [text, colspan].                                                *)
(***************************************************************************)
MaxRows == 2

\* the SongRow fields of the level cells cols[0] .. cols[8]
LevelColumns ==
    <<"sp_beginner", "sp_normal", "sp_hyper", "sp_another", "sp_leggendaria",
      "dp_normal", "dp_hyper", "dp_another", "dp_leggendaria">>

\* td.get_text(" ", strip=True) of a cell that holds one text
get_text(td) == Strip(td.text)

\* ValidationError raised by parse_song_table
RowsRaised(error) == [outcome |-> "raised", error |-> error, rows |-> <<>>]

\* the body of the loop for one row with 13 cells or more: the SongRow, or the
\* ValidationError
parse_row(tds) ==
    LET cols == [i \in 1..13 |-> get_text(tds[i])]
        cells == [i \in 1..9 |-> parse_level_cell(cols[i])]
        genre == IF Strip(cols[11]) # <<>> THEN Strip(cols[11]) ELSE None
        title == Strip(cols[12])
        artist == Strip(cols[13])
    IN  IF \E i \in 1..9 : cells[i].kind = "error" THEN [error |-> "level"]
        ELSE IF title = <<>> THEN [error |-> "title"]
        ELSE IF artist = <<>> THEN [error |-> "artist"]
        ELSE IF \A i \in 1..9 : cells[i].kind = "none" THEN [error |-> "no_chart"]
        ELSE [error |-> "none",
              row |-> [title |-> title, artist |-> artist, genre |-> genre,
                       levels |-> [f \in {LevelColumns[i] : i \in {k \in 1..9 : cells[k].kind = "int"}} |->
                                      cells[CHOOSE i \in 1..9 : LevelColumns[i] = f].level]]]

\* the loop over the rows that leaves out a row it cannot parse
RECURSIVE parse_rows_skip_bad(_, _, _)
parse_rows_skip_bad(trs, n, rows) ==
    IF n > Len(trs) THEN [outcome |-> "returned", error |-> "none", rows |-> rows]
    ELSE IF trs[n] = <<>> THEN parse_rows_skip_bad(trs, n + 1, rows)
    ELSE IF \E i \in 1..Len(trs[n]) : trs[n][i].colspan THEN parse_rows_skip_bad(trs, n + 1, rows)
    ELSE IF Len(trs[n]) < 13 THEN parse_rows_skip_bad(trs, n + 1, rows)
    ELSE IF parse_row(trs[n]).error # "none" THEN parse_rows_skip_bad(trs, n + 1, rows)
    ELSE parse_rows_skip_bad(trs, n + 1, Append(rows, parse_row(trs[n]).row))

\* `for tr in tbody.find_all("tr")` from the n-th row on, then `return rows`
RECURSIVE parse_rows(_, _, _)
parse_rows(trs, n, rows) ==
    IF n > Len(trs) THEN [outcome |-> "returned", error |-> "none", rows |-> rows]
    ELSE IF trs[n] = <<>> THEN parse_rows(trs, n + 1, rows)
    ELSE IF \E i \in 1..Len(trs[n]) : trs[n][i].colspan THEN parse_rows(trs, n + 1, rows)
    ELSE IF Len(trs[n]) < 13 THEN RowsRaised("columns")
    ELSE IF parse_row(trs[n]).error # "none" THEN RowsRaised(parse_row(trs[n]).error)
    ELSE parse_rows(trs, n + 1, Append(rows, parse_row(trs[n]).row))

\* parse_song_table(table)
parse_song_table(table) ==
    IF ~table.tbody THEN RowsRaised("no_tbody") ELSE parse_rows(table.trs, 1, <<>>)

\* a td without colspan
Cell(str) == [text |-> Chars(str), colspan |-> FALSE]

\* a row of 13 cells: SP BEGINNER 5, SP ANOTHER 10 with an annotation, the
\* other charts not available
GoodRow ==
    <<Cell("5"), Cell("-"), Cell("-"), Cell("10[CN]"), Cell("-"), Cell("-"), Cell("-"),
      Cell("-"), Cell("-"), Cell("150"), Cell("g"), Cell(" A "), Cell("x")>>

\* a row of 13 cells none of whose charts is available
NoChartRow == [i \in 1..13 |-> IF i <= 9 THEN Cell("-") ELSE GoodRow[i]]

\* the rows a table is made of
TableRows ==
    {GoodRow,
     Append(GoodRow, Cell("extra")),
     [GoodRow EXCEPT ![11] = Cell(""), ![12] = Cell("b")],
     [GoodRow EXCEPT ![2] = Cell(""), ![12] = Cell("c")],
     <<>>,
     <<[text |-> Chars("SP"), colspan |-> TRUE]>>,
     SubSeq(GoodRow, 1, 12),
     [SubSeq(GoodRow, 1, 12) EXCEPT ![1] = [text |-> Chars("5"), colspan |-> TRUE]],
     [GoodRow EXCEPT ![12] = Cell("  ")],
     [GoodRow EXCEPT ![13] = Cell("")],
     [GoodRow EXCEPT ![3] = Cell("1x")],
     NoChartRow,
     [NoChartRow EXCEPT ![1] = Cell("[CN]"), ![9] = Cell("-[CN]")]}

\* the tables: a tbody of up to MaxRows rows, or no tbody
Tables ==
    {[tbody |-> TRUE, trs |-> trs] : trs \in UNION {[1..k -> TableRows] : k \in 0..MaxRows}}
    \cup {[tbody |-> FALSE, trs |-> <<>>]}

InitTable ==
    /\ InitRecon
    /\ InitStab
    /\ IdleNorm
    /\ IdleKey
    /\ IdleLevel
    /\ IdleExt
    /\ IdleSchema
    /\ tin \in Tables
    /\ tout = NoRows

\* rows = parse_song_table(table)
ParseSongTable ==
    /\ tout = NoRows
    /\ tout' = parse_song_table(tin)
    /\ UNCHANGED <<tin, normVars, keyVars, levelVars, extVars, schemaVars>>
    /\ UNCHANGED reconVars
    /\ UNCHANGED stabVars

NextTable == ParseSongTable

SpecTable == InitTable /\ [][NextTable]_vars

\* the data rows of the table: the rows that have cells, none with a colspan
DataRows == {n \in 1..Len(tin.trs) :
                tin.trs[n] # <<>> /\ \A i \in 1..Len(tin.trs[n]) : ~tin.trs[n][i].colspan}

\* the text of a cell without the white space around it
CellText(td) == Strip(td.text)

\* a level cell that holds digits, with or without a bracketed annotation
DigitsCell(td) == IsDigits(Strip(RemoveBracketed(CellText(td))))

\* a level cell that holds the not-available sentinel
SentinelCell(td) == CellText(td) = <<"-">>

\* a level cell that gives no chart: the sentinel or nothing, with or without
\* a bracketed annotation
AbsentCell(td) == Strip(RemoveBracketed(CellText(td))) \in {<<"-">>, <<>>}

\* the row has fewer than 13 cells, or no title, or no artist
Incomplete(tds) ==
    \/ Len(tds) < 13
    \/ CellText(tds[12]) = <<>>
    \/ CellText(tds[13]) = <<>>

\* a data row is bad when a level cell is neither digits nor the sentinel, or
\* all its level cells are the sentinel
BadRowSentinelOnly(tds) ==
    \/ Incomplete(tds)
    \/ \E i \in 1..9 : ~DigitsCell(tds[i]) /\ ~SentinelCell(tds[i])
    \/ \A i \in 1..9 : SentinelCell(tds[i])

\* a data row is bad when a level cell is neither digits nor absent, or all
\* its level cells are absent
BadRow(tds) ==
    \/ Incomplete(tds)
    \/ \E i \in 1..9 : ~DigitsCell(tds[i]) /\ ~AbsentCell(tds[i])
    \/ \A i \in 1..9 : AbsentCell(tds[i])

\* the title of the n-th data row, in the order of the table
DataTitles == [k \in 1..Cardinality(DataRows) |->
                  CellText(tin.trs[CHOOSE n \in DataRows :
                                      Cardinality({m \in DataRows : m < n}) = k - 1][12])]

\* C22 as stated: parse_song_table raises and returns no rows as soon as any
\* data row has fewer than 13 cells, an empty title, an empty artist, a level
\* cell that is neither digits nor the not-available sentinel, or all 9 level
\* cells not available; rows with no cells or with a colspan cell are skipped.
C22_RaisesOnSentinelOnly ==
    (tout.outcome # "none" /\ tin.tbody) =>
        /\ (\E n \in DataRows : BadRowSentinelOnly(tin.trs[n])) =>
              tout.outcome = "raised" /\ tout.rows = <<>>
        /\ (\A n \in DataRows : ~BadRowSentinelOnly(tin.trs[n])) =>
              /\ tout.outcome = "returned"
              /\ [k \in 1..Len(tout.rows) |-> tout.rows[k].title] = DataTitles

\* C22: parse_song_table raises and returns no rows as soon as any data row
\* has fewer than 13 cells, an empty title, an empty artist, a level cell that
\* is neither digits nor absent (the sentinel or an empty cell, each with or
\* without a bracketed annotation), or all 9 level cells absent; otherwise it
\* returns one row per data row, in order; rows with no cells or with a
\* colspan cell are skipped without error.
C22_RaisesOnAnyBadRow ==
    (tout.outcome # "none" /\ tin.tbody) =>
        /\ (\E n \in DataRows : BadRow(tin.trs[n])) =>
              tout.outcome = "raised" /\ tout.rows = <<>>
        /\ (\A n \in DataRows : ~BadRow(tin.trs[n])) =>
              /\ tout.outcome = "returned"
              /\ [k \in 1..Len(tout.rows) |-> tout.rows[k].title] = DataTitles

\* a table whose first row parses and whose second row has no title was
\* parsed: nothing is returned
C22_Witness ==
    /\ tout.outcome = "raised"
    /\ tout.rows = <<>>
    /\ Len(tin.trs) = 2
    /\ tin.trs[1] = GoodRow
    /\ ~BadRow(tin.trs[1])
    /\ CellText(tin.trs[2][12]) = <<>>

(***************************************************************************)
(* Specification SpecSchema: validate_db_schema_and_data                   *)
(* (src/src/build_validation.py) on an SQLite file described by what its   *)
(* PRAGMAs and queries return: table_info(music) as column -> notnull,     *)
(* index_list with index_info as sets of [name, unique, columns], the      *)
(* music rows, and the rows of meta in rowid order.                        *)
(***************************************************************************)
\* a schema version stored or passed as an integer, as a text
IntValue(n) == [t |-> "int", v |-> <<>>, n |-> n]
TextValue(str) == [t |-> "text", v |-> Chars(str), n |-> 0]

\* NULL in meta.schema_version, None as expected_schema_version
NoValue == [t |-> "null", v |-> <<>>, n |-> 0]

\* str(value) of a schema version
SchemaVersionText(value) ==
    IF value.t = "int"
    THEN (CASE value.n = 1 -> <<"1">> [] value.n = 2 -> <<"2">> [] value.n = 10 -> <<"1", "0">>)
    ELSE value.v

\* _has_unique_index(conn, table_name, expected_columns) on the table's index list
has_unique_index(index_list, expected_columns) ==
    \E row \in index_list : row.unique = 1 /\ row.columns = expected_columns

\* _assert_index_exists(conn, table_name, index_name): "ok" or the error
assert_index_exists(index_list, index_name) ==
    IF index_name \notin {row.name : row \in index_list} THEN "index_missing" ELSE "ok"

\* _read_meta_schema_version(conn): the text of the marker of the last row,
\* or the error
read_meta_schema_version(meta) ==
    IF meta = <<>> \/ meta[Len(meta)] = NoValue
    THEN [error |-> "version_missing", text |-> <<>>]
    ELSE [error |-> "ok", text |-> SchemaVersionText(meta[Len(meta)])]

\* the statements of validate_db_schema_and_data in order, each as "ok" or the
\* RuntimeError it raises
schema_checks(db, expected_schema_version) ==
    << assert_not_null_column(db.music_info, "textage_id"),
       assert_not_null_column(db.music_info, "title_search_key"),
       IF ~has_unique_index(db.music_indexes, <<"textage_id">>)
       THEN "music_unique_missing" ELSE "ok",
       IF ~has_unique_index(db.chart_indexes, <<"music_id", "play_style", "difficulty">>)
       THEN "chart_unique_missing" ELSE "ok",
       assert_index_exists(db.music_indexes, "idx_music_title_search_key"),
       IF null_count(db) > 0 THEN "null_search_key" ELSE "ok",
       read_meta_schema_version(db.meta).error,
       IF /\ expected_schema_version # NoValue
          /\ read_meta_schema_version(db.meta).text # SchemaVersionText(expected_schema_version)
       THEN "version_mismatch" ELSE "ok" >>

\* the structural check reporting the last statement that fails
validate_db_schema_and_data_last(db, expected_schema_version) ==
    LET checks == schema_checks(db, expected_schema_version)
        failing == {i \in 1..Len(checks) : checks[i] # "ok"}
    IN  IF failing = {} THEN [outcome |-> "returned", error |-> "ok", at |-> 0]
        ELSE LET i == CHOOSE i \in failing : \A k \in failing : k <= i
             IN  [outcome |-> "raised", error |-> checks[i], at |-> i]

\* validate_db_schema_and_data(sqlite_path, expected_schema_version): returns,
\* or raises at its first statement that fails
validate_db_schema_and_data(db, expected_schema_version) ==
    LET checks == schema_checks(db, expected_schema_version)
        failing == {i \in 1..Len(checks) : checks[i] # "ok"}
    IN  IF failing = {} THEN [outcome |-> "returned", error |-> "ok", at |-> 0]
        ELSE LET i == CHOOSE i \in failing : \A k \in failing : i <= k
             IN  [outcome |-> "raised", error |-> checks[i], at |-> i]

\* PRAGMA table_info(music): with or without each of the two columns, each
\* with or without NOT NULL
MusicInfos ==
    {base @@ a @@ b :
        base \in {[music_id |-> 0, title |-> 1]},
        a \in {<<>>, [textage_id |-> 0], [textage_id |-> 1]},
        b \in {<<>>, [title_search_key |-> 0], [title_search_key |-> 1]}}

\* the indexes a music table may have
MusicIndexes ==
    {[name |-> "sqlite_autoindex_music_1", unique |-> 1, columns |-> <<"textage_id">>],
     [name |-> "idx_music_textage_id", unique |-> 0, columns |-> <<"textage_id">>],
     [name |-> "idx_music_title_search_key", unique |-> 0, columns |-> <<"title_search_key">>]}

\* the index lists a chart table may have
ChartIndexLists ==
    {{},
     {[name |-> "sqlite_autoindex_chart_1", unique |-> 1,
       columns |-> <<"music_id", "play_style", "difficulty">>]},
     {[name |-> "sqlite_autoindex_chart_1", unique |-> 1,
       columns |-> <<"play_style", "music_id", "difficulty">>]},
     {[name |-> "idx_chart_slot", unique |-> 0,
       columns |-> <<"music_id", "play_style", "difficulty">>]}}

\* the music rows a table of these columns may hold: none, one with a search
\* key, and one more without, which a NOT NULL column does not admit
MusicRowSets(music_info) ==
    IF "title_search_key" \notin DOMAIN music_info THEN {{}, {[music_id |-> 1]}}
    ELSE {{}, {[music_id |-> 1, title_search_key |-> "a"]}}
         \cup IF music_info.title_search_key = 1 THEN {}
              ELSE {{[music_id |-> 1, title_search_key |-> "a"],
                     [music_id |-> 2, title_search_key |-> NULL]}}

\* the rows of meta
MetaRows ==
    {<<>>, <<TextValue("1")>>, <<NoValue>>, <<TextValue("1"), IntValue(2)>>,
     <<IntValue(2), NoValue>>}

\* expected_schema_version: None, or a version
ExpectedVersions == {NoValue, TextValue("1"), TextValue("2"), IntValue(2)}

SchemaInputs ==
    UNION {{[db |-> [music_info |-> mi, music_indexes |-> mx, chart_indexes |-> cx,
                     music |-> rows, meta |-> meta],
             expected_schema_version |-> e] :
               mx \in SUBSET MusicIndexes, cx \in ChartIndexLists,
               rows \in MusicRowSets(mi), meta \in MetaRows, e \in ExpectedVersions} :
           mi \in MusicInfos}

InitSchema ==
    /\ InitRecon
    /\ InitStab
    /\ IdleNorm
    /\ IdleKey
    /\ IdleLevel
    /\ IdleExt
    /\ IdleTable
    /\ vin \in SchemaInputs
    /\ vout = NoVerdict

\* validate_db_schema_and_data(sqlite_path, expected_schema_version)
ValidateSchema ==
    /\ vout = NoVerdict
    /\ vout' = validate_db_schema_and_data(vin.db, vin.expected_schema_version)
    /\ UNCHANGED <<vin, normVars, keyVars, levelVars, extVars, tableVars>>
    /\ UNCHANGED reconVars
    /\ UNCHANGED stabVars

NextSchema == ValidateSchema

SpecSchema == InitSchema /\ [][NextSchema]_vars

\* the column is there and NOT NULL
NotNullColumn(column) ==
    column \in DOMAIN vin.db.music_info /\ vin.db.music_info[column] = 1

\* the persisted schema-version marker: the value of the latest meta row
Marker == IF vin.db.meta = <<>> THEN NoValue ELSE vin.db.meta[Len(vin.db.meta)]

\* the first six requirements of the structural check, in its order
StructuralRequirements ==
    << NotNullColumn("textage_id"),
       NotNullColumn("title_search_key"),
       \E x \in vin.db.music_indexes : x.unique = 1 /\ x.columns = <<"textage_id">>,
       \E x \in vin.db.chart_indexes :
           x.unique = 1 /\ x.columns = <<"music_id", "play_style", "difficulty">>,
       \E x \in vin.db.music_indexes : x.name = "idx_music_title_search_key",
       \A r \in vin.db.music :
           "title_search_key" \in DOMAIN r /\ r.title_search_key # NULL >>

\* the schema version requirement as stated: the marker is compared with the
\* expected value only when one is supplied
VersionMatchesIfSupplied ==
    vin.expected_schema_version # NoValue =>
        /\ Marker # NoValue
        /\ SchemaVersionText(Marker) = SchemaVersionText(vin.expected_schema_version)

\* the schema version requirement: the marker is there, and equals the
\* expected value when one is supplied
VersionPresentAndMatches ==
    /\ Marker # NoValue
    /\ vin.expected_schema_version # NoValue =>
          SchemaVersionText(Marker) = SchemaVersionText(vin.expected_schema_version)

\* the requirement a RuntimeError of the check reports
RequirementOf(at) == IF at = 8 THEN 7 ELSE at

\* the check ends as the requirements reqs demand: it returns iff none fails,
\* else it raises reporting the first that fails
EndsAtFirstFailure(reqs) ==
    LET failing == {i \in 1..Len(reqs) : ~reqs[i]}
    IN  /\ (vout.outcome = "returned") <=> (failing = {})
        /\ failing # {} =>
              /\ vout.outcome = "raised"
              /\ RequirementOf(vout.at) \in failing
              /\ \A k \in failing : RequirementOf(vout.at) <= k

\* C23 as stated: the structural check evaluates its requirements in one fixed
\* order and raises at the first that fails, reporting only that one; it
\* returns iff none fails; the schema-version marker is compared with the
\* expected value only when one is supplied, failing then iff the texts differ.
C23_VersionOnlyIfSupplied ==
    vout.outcome # "none" =>
        EndsAtFirstFailure(Append(StructuralRequirements, VersionMatchesIfSupplied))

\* C23: the structural check evaluates its requirements in one fixed order
\* and raises at the first that fails, reporting only that one; it returns
\* iff none fails; the schema-version marker must be present whether or not an
\* expected value is supplied, and is compared with the expected value only
\* when one is supplied, failing then iff the texts differ.
C23_FirstFailureOnly ==
    vout.outcome # "none" =>
        EndsAtFirstFailure(Append(StructuralRequirements, VersionPresentAndMatches))

\* a file that fails three requirements was checked and the earliest one, the
\* missing unique index, is reported, not the missing search-key index or the
\* version
C23_Witness ==
    /\ vout.outcome = "raised"
    /\ vout.error = "music_unique_missing"
    /\ StructuralRequirements[1] /\ StructuralRequirements[2]
    /\ ~StructuralRequirements[3]
    /\ ~StructuralRequirements[5]
    /\ ~VersionPresentAndMatches

(***************************************************************************)
(* C24: the boundary scan, stated over the tokens of the source: a string  *)
(* literal is skipped as a whole, from its opening quote to its closing    *)
(* one.                                                                    *)
(***************************************************************************)
\* the closing quote of the string literal opened by quote whose body starts
\* at j: the first quote of that style that no backslash consumes, 0 when the
\* input ends before it
RECURSIVE StringClose(_, _, _)
StringClose(s, j, quote) ==
    IF j > Len(s) THEN 0
    ELSE IF s[j] = "\\" THEN StringClose(s, j + 2, quote)
    ELSE IF s[j] = quote THEN j
    ELSE StringClose(s, j + 1, quote)

\* the first "}" at or after i, outside every string literal, that brings the
\* depth of the braces opened since back to zero, 0 when there is none
RECURSIVE ObjectEnd(_, _, _)
ObjectEnd(s, i, depth) ==
    IF i > Len(s) THEN 0
    ELSE IF IsQuote(s[i])
         THEN IF StringClose(s, i + 1, s[i]) = 0 THEN 0
              ELSE ObjectEnd(s, StringClose(s, i + 1, s[i]) + 1, depth)
    ELSE IF s[i] = "{" THEN ObjectEnd(s, i + 1, depth + 1)
    ELSE IF s[i] = "}" THEN IF depth = 1 THEN i ELSE ObjectEnd(s, i + 1, depth - 1)
    ELSE ObjectEnd(s, i + 1, depth)

\* C24: the boundary scan selects as the end of the object the first "}"
\* outside any string literal at which brace depth returns to zero: braces
\* and quotes of the other style inside a string literal change nothing, a
\* string ends only at an unescaped quote of the style that opened it, and
\* inside a string a backslash always consumes the next character.
C24_EndIsFirstBalancedBrace ==
    (ext.outcome # "none" /\ ext.error # "not_found") =>
        /\ ext.end_index = ObjectEnd(js.text, ext.brace_start, 0)
        /\ (ext.error = "no_end") <=> (ObjectEnd(js.text, ext.brace_start, 0) = 0)

\* an object was extracted whose end lies after a nested object, a "}" in a
\* string literal after an escaped quote, and an apostrophe between double
\* quotes
C24_Witness ==
    /\ ext.outcome = "returned"
    /\ ext.end_index = Len(js.text)
    /\ \A p \in 1..Len(js.text) : js.text[p] # "/"
    /\ \E p \in (ext.brace_start + 1)..(ext.end_index - 1) :
          js.text[p] = "{" /\ ~ScanStateAfter(js.text, ext.brace_start, p).in_str
    /\ \E p \in (ext.brace_start + 1)..(ext.end_index - 1) :
          js.text[p] = "}" /\ js.text[p - 1] = "\"" /\ js.text[p - 2] = "\\"
    /\ \E p \in (ext.brace_start + 1)..(ext.end_index - 1) : js.text[p] = "'"

(***************************************************************************)
(* C25..C27: the rewrites.                                                 *)
(***************************************************************************)
\* the object body of the source after constant substitution
SubstitutedBody ==
    substitute_consts(SubSeq(js.text, ext.brace_start, ext.end_index),
                      DictItems(find_consts(js.text, 1)), 1)

\* the object body before the rewrite of the bare letters: constants, line
\* comments, decoration calls and single-quoted keys done
BeforeLetters ==
    quote_single_keys(strip_fontcolor(strip_line_comments(SubstitutedBody, 1), 1), 1)

\* C25: the bare letters A to F that stand as array elements are rewritten to
\* quoted strings only when actbl is extracted; when any other table is
\* extracted the rewrite is not applied and such letters are left as they
\* are (so that a whole-document table holding one does not parse).
C25_LettersQuotedOnlyForActbl ==
    BoundaryFound =>
        /\ js.varname = Chars("actbl") =>
              rewrite_pipeline(SubstitutedBody) = quote_bare_letters(BeforeLetters)
        /\ js.varname # Chars("actbl") =>
              rewrite_pipeline(SubstitutedBody) = BeforeLetters
        /\ (js.varname = Chars("datatbl") /\ ext.outcome = "returned") =>
              json_loads(escape_ctrl(BeforeLetters, 1)).ok

\* the text from i on with the control characters of its double-quoted
\* literals escaped: a literal runs from a double quote to the next one that
\* no backslash consumes, and a character after a backslash is kept as it is
RECURSIVE EscapeInLiteral(_, _, _)
EscapeInLiteral(s, j, close) ==
    IF j >= close THEN <<>>
    ELSE IF s[j] = "\\" THEN <<s[j], s[j + 1]>> \o EscapeInLiteral(s, j + 2, close)
    ELSE IF IsControl(s[j]) THEN CtrlEscape(s[j]) \o EscapeInLiteral(s, j + 1, close)
    ELSE <<s[j]>> \o EscapeInLiteral(s, j + 1, close)

RECURSIVE EscapeLiterals(_, _)
EscapeLiterals(s, i) ==
    IF i > Len(s) THEN <<>>
    ELSE IF s[i] = "\"" /\ StringClose(s, i + 1, "\"") # 0
         THEN <<"\"">> \o EscapeInLiteral(s, i + 1, StringClose(s, i + 1, "\"")) \o <<"\"">>
                  \o EscapeLiterals(s, StringClose(s, i + 1, "\"") + 1)
         ELSE <<s[i]>> \o EscapeLiterals(s, i + 1)

\* C26: in whole-document mode every raw character below 0x20 (tab, carriage
\* return and line feed included) inside a double-quoted literal is replaced
\* by its \uXXXX escape before parsing, a character that follows a backslash
\* is left as it is, and text outside double-quoted literals is unchanged; so
\* a body that parses once escaped so is returned.
C26_ControlCharsEscaped ==
    (js.varname # Chars("titletbl") /\ BoundaryFound) =>
        /\ RewrittenBody = EscapeLiterals(rewrite_pipeline(SubstitutedBody), 1)
        /\ json_loads(EscapeLiterals(rewrite_pipeline(SubstitutedBody), 1)).ok =>
              ext.outcome = "returned"

\* the object body after the six rewrites in their order: constants, line
\* comments, decoration calls, single-quoted keys, bare letters, control
\* characters
FullyRewritten ==
    escape_ctrl(
        quote_bare_letters(
            quote_single_keys(
                strip_fontcolor(strip_line_comments(SubstitutedBody, 1), 1), 1)), 1)

\* C27: the rewrites run in the order constants, line comments, decoration
\* calls, single-quoted keys, A-F quoting, control-character escaping, and
\* all of them have been applied before any parsing starts, in per-entry mode
\* as in whole-document mode: what is returned is the parse of the fully
\* rewritten text (in per-entry mode an entry whose string holds a raw
\* control character is escaped and parsed, not skipped).
C27_AllRewritesBeforeParsing ==
    BoundaryFound =>
        /\ js.varname # Chars("titletbl") =>
              /\ (ext.outcome = "returned") <=> json_loads(FullyRewritten).ok
              /\ ext.document = json_loads(FullyRewritten).v
        /\ js.varname = Chars("titletbl") =>
              ext.mapping = parse_entries(entry_findall(FullyRewritten, 1), 1, {})

(***************************************************************************)
(* C28..C30: what an update leaves alone, ownership of the charts, and     *)
(* soft-deleted charts in the stability check.                             *)
(***************************************************************************)
\* the step is an apply_song call that does not raise
ApplyStep == pc = "running" /\ pc' = "running" /\ batch' # batch

\* music row q is row r with at most genre, is_active, last_seen_at and
\* updated_at changed
SameMusicEntity(r, q) ==
    /\ q.music_id = r.music_id
    /\ q.music_key = r.music_key
    /\ q.title = r.title
    /\ q.normalized_title = r.normalized_title
    /\ q.artist = r.artist
    /\ q.normalized_artist = r.normalized_artist
    /\ q.created_at = r.created_at

\* chart row q is row r with at most level, is_active, last_seen_at and
\* updated_at changed
SameChartEntity(r, q) ==
    /\ q.chart_id = r.chart_id
    /\ q.music_id = r.music_id
    /\ q.play_style = r.play_style
    /\ q.difficulty = r.difficulty
    /\ q.created_at = r.created_at

\* C28: when upsert_music finds an existing entity for the record's music_key
\* it changes only genre, is_active, last_seen_at and updated_at: the stored
\* title and artist stay the first-seen spelling even when the record spells
\* them differently; likewise upsert_chart on an existing chart changes only
\* level, is_active, last_seen_at and updated_at. Rows of other keys are not
\* changed at all.
C28_UpdateKeepsIdentityFields ==
    [][ApplyStep =>
          LET song == batch'[Len(batch')]
          IN  /\ \A r \in con.view.music :
                    \E q \in con'.view.music :
                        /\ SameMusicEntity(r, q)
                        /\ r.music_key # KeyOf(song) => q = r
                        /\ r.music_key = KeyOf(song) =>
                              q.genre = song.genre /\ q.is_active = 1
              /\ \A r \in con.view.chart :
                    \E q \in con'.view.chart :
                        /\ SameChartEntity(r, q)
                        /\ (\A m \in con.view.music :
                               m.music_id = r.music_id => m.music_key # KeyOf(song)) => q = r]_vars

\* a record spelling the title "a " was applied to the entity first seen as
\* "A": the row was updated and still reads "A"
C28_Witness ==
    /\ pc = "running"
    /\ batch # <<>>
    /\ batch[Len(batch)].title = <<"a", " ">>
    /\ \E r \in con.view.music :
          /\ r.music_key = KeyOf(batch[Len(batch)])
          /\ r.title = <<"A">>
          /\ r.updated_at > r.created_at
          /\ r.last_seen_at = r.updated_at
          /\ \E c \in con.view.chart :
                c.music_id = r.music_id /\ c.updated_at > c.created_at

\* C29: after every complete reconciliation run, every Chart row's music_id
\* refers to an existing Music row and every active Chart is owned by an
\* active Music: a chart is never active while its song is inactive.
C29_ActiveChartHasActiveSong ==
    \A c \in con.disk.chart :
        /\ Cardinality({m \in con.disk.music : m.music_id = c.music_id}) = 1
        /\ c.is_active = 1 =>
              \A m \in con.disk.music : m.music_id = c.music_id => m.is_active = 1

\* a run has committed a file that holds a soft-deleted song whose charts are
\* all inactive next to an active song with an active chart
C29_Witness ==
    /\ pc = "idle"
    /\ lastRun = "committed"
    /\ \E m \in con.disk.music :
          /\ m.is_active = 0
          /\ \E c \in con.disk.chart : c.music_id = m.music_id
          /\ \A c \in con.disk.chart : c.music_id = m.music_id => c.is_active = 0
    /\ \E m \in con.disk.music, c \in con.disk.chart :
          m.is_active = 1 /\ c.music_id = m.music_id /\ c.is_active = 1

(***************************************************************************)
(* Specification SpecSoft: validate_chart_id_stability on two files with   *)
(* soft-deleted rows.  The baseline holds some of three charts of two      *)
(* songs; the new file holds each of the three not at all, or with its id  *)
(* or another id, active or soft-deleted.                                  *)
(***************************************************************************)
\* the (music_id, play_style, difficulty) of the three charts
FileSlots == << <<1, "SP", "NORMAL">>, <<1, "DP", "NORMAL">>, <<2, "SP", "NORMAL">> >>

\* the title of the song with a music_id
FileTitles == << <<"A">>, <<"b">> >>

\* the music row of a song as upsert_music inserts it, active or soft-deleted
FileMusic(music_id, is_active) ==
    [music_id |-> music_id,
     music_key |-> build_music_key(FileTitles[music_id], Artist),
     title |-> FileTitles[music_id],
     normalized_title |-> normalize_text(FileTitles[music_id]),
     artist |-> Artist,
     normalized_artist |-> normalize_text(Artist),
     genre |-> NULL, is_active |-> is_active,
     last_seen_at |-> 1, created_at |-> 1, updated_at |-> 1]

\* the chart row of slot i as upsert_chart inserts it, under chart_id
FileChart(i, chart_id, is_active) ==
    [chart_id |-> chart_id, music_id |-> FileSlots[i][1], play_style |-> FileSlots[i][2],
     difficulty |-> FileSlots[i][3], level |-> 5, is_active |-> is_active,
     last_seen_at |-> 1, created_at |-> 1, updated_at |-> 1]

\* how a new file may hold a chart of the baseline
Holdings == {"absent", "kept", "kept_inactive", "renumbered", "renumbered_inactive"}

\* the baseline files: both songs, and any of the three charts under ids 1..3
OldFiles ==
    {[music |-> {FileMusic(1, 1), FileMusic(2, 1)},
      chart |-> {FileChart(i, i, 1) : i \in held},
      music_seq |-> 2, chart_seq |-> 3] : held \in SUBSET (1..3)}

\* the new files
NewFiles ==
    {[music |-> {FileMusic(1, a[1]), FileMusic(2, a[2])},
      chart |-> {FileChart(i, IF h[i] \in {"kept", "kept_inactive"} THEN i ELSE i + 3,
                           IF h[i] \in {"kept", "renumbered"} THEN 1 ELSE 0) :
                    i \in {k \in 1..3 : h[k] # "absent"}},
      music_seq |-> 2, chart_seq |-> 6] :
        a \in [1..2 -> {0, 1}], h \in [1..3 -> Holdings]}

InitSoft ==
    /\ con \in {[disk |-> new, view |-> new] : new \in NewFiles}
    /\ pc = "idle"
    /\ batch = <<>>
    /\ clock = 2
    /\ runs = 0
    /\ applies = 0
    /\ lastRun = "none"
    /\ last = NoLast
    /\ baseline \in {[taken |-> TRUE, store |-> old] : old \in OldFiles}
    /\ checked = NoResult
    /\ InitStab
    /\ InitPure

\* validate_chart_id_stability(baseline file, new file, missing_policy)
CheckFiles(policy) ==
    /\ baseline.taken
    /\ checked = NoResult
    /\ checked' = validate_chart_id_stability(JoinedRows(baseline.store),
                                              JoinedRows(con.disk), policy)
    /\ UNCHANGED <<con, pc, batch, clock, runs, applies, lastRun, last, baseline>>
    /\ UNCHANGED stabVars
    /\ UNCHANGED pureVars

NextSoft == \E policy \in Policies : CheckFiles(policy)

SpecSoft == InitSoft /\ [][NextSoft]_vars

\* the comparison key of chart row c of file s
FileKey(s, c) ==
    <<(CHOOSE m \in s.music : m.music_id = c.music_id).music_key, c.play_style, c.difficulty>>

\* the rows of the new file, active or not, under the key of baseline chart b
HeldAs(b) ==
    {c \in con.disk.chart : FileKey(con.disk, c) = FileKey(baseline.store, b)}

\* the baseline charts the new file holds under another id, and not at all
Renumbered == {b \in baseline.store.chart : \E c \in HeldAs(b) : c.chart_id # b.chart_id}
Missing == {b \in baseline.store.chart : HeldAs(b) = {}}

\* C30: the stability check compares all chart rows whatever their is_active
\* flag: a chart that is only soft-deleted in the new file counts as present
\* with its chart id, so deactivating never produces a missing key or a
\* failure under policy error, while an inactive chart whose id differs from
\* the baseline still produces a mismatch.
C30_SoftDeletedStillCompared ==
    checked.outcome \in {"RuntimeError", "return"} =>
        /\ (checked.kind = "mismatch") <=> (Renumbered # {})
        /\ (checked.kind = "missing") <=>
              (Renumbered = {} /\ Missing # {} /\ checked.policy = "error")
        /\ checked.kind = "mismatch" => checked.count = Cardinality(Renumbered)
        /\ checked.kind = "missing" => checked.count = Cardinality(Missing)
        /\ checked.outcome = "return" =>
              /\ checked.summary.missing_in_new_total = Cardinality(Missing)
              /\ checked.summary.shared_total =
                    Cardinality(baseline.store.chart) - Cardinality(Missing)
        /\ (\A b \in baseline.store.chart :
               \E c \in con.disk.chart : c.chart_id = b.chart_id /\ HeldAs(b) = {c}) =>
              checked.outcome = "return" /\ checked.summary.missing_in_new_total = 0

\* the check under policy error failed with one mismatch, that of a chart the
\* new file holds soft-deleted under another id, while a chart the new file
\* holds soft-deleted under its id counted as present
C30_Witness ==
    /\ checked.outcome = "RuntimeError"
    /\ checked.kind = "mismatch"
    /\ checked.policy = "error"
    /\ checked.count = 1
    /\ Missing = {}
    /\ \E b \in Renumbered : \A c \in HeldAs(b) : c.is_active = 0
    /\ \E b \in baseline.store.chart \ Renumbered : \A c \in HeldAs(b) : c.is_active = 0

====
